---- MODULE Spec2Model ----
(***************************************************************************)
(* Dynamic attribute catalog and query engine of the multi-tenant PIM      *)
(* backend: ingestion (app/utils/ai_csv_utils.py and the upload endpoints  *)
(* of app/api/v1/endpoints/product.py), the attribute schema registry      *)
(* (field configuration endpoints) and the filter builder                  *)
(* (search_products, list_products).                                       *)
(*                                                                         *)
(* Text is modelled as a sequence of one-character strings, so that        *)
(* lower(), strip(), split(','), replace() and substring matching are      *)
(* computed character by character as the code computes them.  Python      *)
(* values are tagged records: [k, s, n] with k the kind ("none", "nan",    *)
(* "str", "int", "float", "bool"), s the text of a str and n the number    *)
(* of an int/float (floats are restricted to whole numbers) or 0/1 of a    *)
(* bool.                                                                   *)
(***************************************************************************)
EXTENDS Integers, Sequences, FiniteSets, TLC

VARIABLES products, additional_data, field_mappings, field_configurations,
          resp, sessions, write_lock

db_vars == <<products, additional_data, field_mappings, field_configurations>>
vars == <<products, additional_data, field_mappings, field_configurations,
          resp, sessions, write_lock>>

\* The four tables as one value.
DB == [products |-> products, additional_data |-> additional_data,
       field_mappings |-> field_mappings,
       field_configurations |-> field_configurations]

EmptyDB == [products |-> {}, additional_data |-> {}, field_mappings |-> {},
            field_configurations |-> {}]

----------------------------------------------------------------------------
\* Python values

None == [k |-> "none", s |-> <<>>, n |-> 0]
NaN == [k |-> "nan", s |-> <<>>, n |-> 0]
Str(s) == [k |-> "str", s |-> s, n |-> 0]
Int_(n) == [k |-> "int", s |-> <<>>, n |-> n]
Float(n) == [k |-> "float", s |-> <<>>, n |-> n]
Bool(b) == [k |-> "bool", s |-> <<>>, n |-> IF b THEN 1 ELSE 0]

\* Python truthiness: `if value`, `not value`.
Truthy(v) ==
    CASE v.k = "none" -> FALSE
      [] v.k = "nan" -> TRUE
      [] v.k = "str" -> v.s # <<>>
      [] OTHER -> v.n # 0

----------------------------------------------------------------------------
\* Text

UpperChars == <<"A","B","C","D","E","F","G","H","I","J","K","L","M",
                "N","O","P","Q","R","S","T","U","V","W","X","Y","Z">>
LowerChars == <<"a","b","c","d","e","f","g","h","i","j","k","l","m",
                "n","o","p","q","r","s","t","u","v","w","x","y","z">>
Digits == <<"0","1","2","3","4","5","6","7","8","9">>

IndexIn(c, seq) == IF \E i \in DOMAIN seq : seq[i] = c
                   THEN CHOOSE i \in DOMAIN seq : seq[i] = c
                   ELSE 0

LowerChar(c) == IF IndexIn(c, UpperChars) # 0
                THEN LowerChars[IndexIn(c, UpperChars)] ELSE c
UpperChar(c) == IF IndexIn(c, LowerChars) # 0
                THEN UpperChars[IndexIn(c, LowerChars)] ELSE c
IsCased(c) == IndexIn(c, UpperChars) # 0 \/ IndexIn(c, LowerChars) # 0

\* str.lower()
Lower(s) == [i \in DOMAIN s |-> LowerChar(s[i])]

\* str.title(): a cased character is upper-cased after an uncased one (or at
\* the start) and lower-cased after a cased one.
Title(s) == [i \in DOMAIN s |->
               IF i > 1 /\ IsCased(s[i - 1]) THEN LowerChar(s[i])
               ELSE UpperChar(s[i])]

\* str.strip(): leading and trailing blanks removed.
Strip(s) ==
    LET nb == {i \in DOMAIN s : s[i] # " "}
    IN IF nb = {} THEN <<>>
       ELSE LET lo == CHOOSE i \in nb : \A j \in nb : i <= j
                hi == CHOOSE i \in nb : \A j \in nb : i >= j
            IN SubSeq(s, lo, hi)

\* `needle in hay`
Contains(hay, needle) ==
    \E i \in 0..(Len(hay) - Len(needle)) :
        \A j \in 1..Len(needle) : hay[i + j] = needle[j]

\* str.replace(a, '_') for single characters a in from.
ReplaceChars(s, from, to) ==
    [i \in DOMAIN s |-> IF s[i] \in from THEN to ELSE s[i]]

\* str.split(','): the pieces between commas, empty pieces kept.
RECURSIVE SplitFrom(_, _, _)
SplitFrom(s, i, cur) ==
    IF i > Len(s) THEN <<cur>>
    ELSE IF s[i] = "," THEN <<cur>> \o SplitFrom(s, i + 1, <<>>)
    ELSE SplitFrom(s, i + 1, Append(cur, s[i]))
Split(s) == SplitFrom(s, 1, <<>>)

\* str(n) for a non-negative integer.
RECURSIVE IntToStr(_)
IntToStr(n) == IF n < 10 THEN <<Digits[n + 1]>>
               ELSE Append(IntToStr(n \div 10), Digits[(n % 10) + 1])

\* The text is a plain run of decimal digits (after strip): the numerals
\* float() and int() accept among the texts used here.
IsNumeral(s) == LET t == Strip(s)
                IN t # <<>> /\ \A i \in DOMAIN t : IndexIn(t[i], Digits) # 0

RECURSIVE DigitsValue(_)
DigitsValue(t) == IF t = <<>> THEN 0
                  ELSE 10 * DigitsValue(SubSeq(t, 1, Len(t) - 1))
                       + (IndexIn(t[Len(t)], Digits) - 1)
ParseNumber(s) == DigitsValue(Strip(s))

\* str(value) of a Python value.
PyStr(v) ==
    CASE v.k = "none" -> <<"N","o","n","e">>
      [] v.k = "nan" -> <<"n","a","n">>
      [] v.k = "str" -> v.s
      [] v.k = "int" -> IntToStr(v.n)
      [] v.k = "float" -> IntToStr(v.n) \o <<".","0">>
      [] v.k = "bool" -> IF v.n = 1 THEN <<"T","r","u","e">>
                         ELSE <<"F","a","l","s","e">>

\* Sequence helpers
SeqToSet(q) == {q[i] : i \in DOMAIN q}
Max(S) == IF S = {} THEN 0 ELSE CHOOSE x \in S : \A y \in S : x >= y

----------------------------------------------------------------------------
\* Ingestion: app/utils/ai_csv_utils.py

\* (Variant: the ceiling is one row lower.)
MAX_PRODUCTS_LIMIT_lower == 500 - 1

\* Maximum product limit for this version
MAX_PRODUCTS_LIMIT == 500

standard_fields ==
    { <<"s","k","u","_","i","d">>, <<"s","k","u">>,
      <<"p","r","o","d","u","c","t","_","i","d">>, <<"i","d">>,
      <<"p","r","i","c","e">>, <<"c","o","s","t">>,
      <<"a","m","o","u","n","t">>, <<"v","a","l","u","e">>,
      <<"m","a","n","u","f","a","c","t","u","r","e","r">>,
      <<"b","r","a","n","d">>, <<"m","a","k","e","r">>,
      <<"c","o","m","p","a","n","y">>,
      <<"s","u","p","p","l","i","e","r">>, <<"v","e","n","d","o","r">>,
      <<"d","i","s","t","r","i","b","u","t","o","r">>,
      <<"i","m","a","g","e","_","u","r","l">>, <<"i","m","a","g","e">>,
      <<"p","h","o","t","o">>, <<"p","i","c","t","u","r","e">>,
      <<"c","a","t","e","g","o","r","y","_","i","d">>,
      <<"c","a","t","e","g","o","r","y">>, <<"c","a","t","_","i","d">> }

\* The names of the six fixed columns of Product.
f_sku_id == <<"s","k","u","_","i","d">>
f_category_id == <<"c","a","t","e","g","o","r","y","_","i","d">>
f_price == <<"p","r","i","c","e">>
f_manufacturer == <<"m","a","n","u","f","a","c","t","u","r","e","r">>
f_supplier == <<"s","u","p","p","l","i","e","r">>
f_image_url == <<"i","m","a","g","e","_","u","r","l">>
f_brand == <<"b","r","a","n","d">>
FixedColumns == {f_sku_id, f_category_id, f_price, f_manufacturer,
                 f_supplier, f_image_url}

\* The other keys of the staged row dictionary (`normalized_name in
\* product_data` is a test on the dictionary's keys).
StagedMetaKeys ==
    { <<"i","n","d","e","x">>,
      <<"a","d","d","i","t","i","o","n","a","l","_","d","a","t","a">>,
      <<"v","a","l","i","d","a","t","i","o","n","_","s","t","a","t","u","s">>,
      <<"v","a","l","i","d","a","t","i","o","n","_","e","r","r","o","r","s">>,
      <<"i","s","_","e","d","i","t","e","d">> }

AnyIn(words, s) == \E w \in words : Contains(s, w)

_detect_field_type(header_lower) ==
    IF AnyIn({<<"p","r","i","c","e">>, <<"c","o","s","t">>,
              <<"a","m","o","u","n","t">>, <<"v","a","l","u","e">>,
              <<"r","a","t","e">>}, header_lower) THEN "number"
    ELSE IF AnyIn({<<"d","a","t","e">>, <<"c","r","e","a","t","e","d">>,
                   <<"u","p","d","a","t","e","d">>, <<"e","x","p","i","r","y">>,
                   <<"e","x","p","i","r","a","t","i","o","n">>},
                  header_lower) THEN "date"
    ELSE IF AnyIn({<<"i","s","_">>, <<"h","a","s","_">>,
                   <<"a","c","t","i","v","e">>, <<"e","n","a","b","l","e","d">>,
                   <<"a","v","a","i","l","a","b","l","e">>},
                  header_lower) THEN "boolean"
    ELSE "string"

\* One mapping record of the fallback analysis.
FallbackMapping(header) ==
    LET header_lower == Strip(Lower(header))
    IN [original_field_name |-> header,
        normalized_field_name |-> ReplaceChars(header_lower, {" ", "-", "."}, "_"),
        field_label |-> Title(ReplaceChars(header, {"_"}, " ")),
        field_type |-> _detect_field_type(header_lower),
        is_standard_field |-> AnyIn(standard_fields, header_lower)]

_fallback_analysis(headers) == [i \in DOMAIN headers |-> FallbackMapping(headers[i])]

\* True strings of the boolean conversion.
BoolTrueTexts == {<<"t","r","u","e">>, <<"1">>, <<"y","e","s">>, <<"y">>}

\* `str(value).strip() if value else None`
StrippedOrNone(value) == IF Truthy(value) THEN Str(Strip(PyStr(value))) ELSE None

\* (Variant: a value that cannot be converted is dropped.)
_convert_value_strict(value, field_type) ==
    IF value.k = "nan" THEN None
    ELSE IF field_type = "number" THEN
        IF ~Truthy(value) THEN None
        ELSE IF value.k = "str" THEN
            IF IsNumeral(value.s) THEN Float(ParseNumber(value.s))
            ELSE None
        ELSE Float(value.n)
    ELSE IF field_type = "boolean" THEN
        IF value.k = "str" THEN Bool(Lower(value.s) \in BoolTrueTexts)
        ELSE Bool(Truthy(value))
    ELSE IF field_type = "date" THEN Str(PyStr(value))
    ELSE StrippedOrNone(value)

_convert_value(value, field_type) ==
    IF value.k = "nan" THEN None
    ELSE IF field_type = "number" THEN
        IF ~Truthy(value) THEN None
        ELSE IF value.k = "str" THEN
            IF IsNumeral(value.s) THEN Float(ParseNumber(value.s))
            ELSE StrippedOrNone(value)          \* ValueError
        ELSE Float(value.n)
    ELSE IF field_type = "boolean" THEN
        IF value.k = "str" THEN Bool(Lower(value.s) \in BoolTrueTexts)
        ELSE Bool(Truthy(value))
    ELSE IF field_type = "date" THEN Str(PyStr(value))
    ELSE StrippedOrNone(value)

\* field_map = {mapping['original_field_name']: mapping ...}: the last
\* mapping of a header wins; NoMapping when the header has none.
NoMapping == [original_field_name |-> <<>>, normalized_field_name |-> <<>>,
              field_label |-> <<>>, field_type |-> "none",
              is_standard_field |-> FALSE]
FieldMapGet(field_mappings_, col_name) ==
    LET hits == {i \in DOMAIN field_mappings_ :
                    field_mappings_[i].original_field_name = col_name}
    IN IF hits = {} THEN NoMapping ELSE field_mappings_[Max(hits)]

NewStagedRow(index) ==
    [index |-> index, sku_id |-> None, category_id |-> None, price |-> None,
     manufacturer |-> None, supplier |-> None, image_url |-> None,
     additional_data |-> <<>>, validation_status |-> "valid",
     validation_errors |-> <<>>, meta_written |-> {}]

\* product_data[normalized_name] = processed_value
SetKey(pd, name, v) ==
    IF name = f_sku_id THEN [pd EXCEPT !.sku_id = v]
    ELSE IF name = f_category_id THEN [pd EXCEPT !.category_id = v]
    ELSE IF name = f_price THEN [pd EXCEPT !.price = v]
    ELSE IF name = f_manufacturer THEN [pd EXCEPT !.manufacturer = v]
    ELSE IF name = f_supplier THEN [pd EXCEPT !.supplier = v]
    ELSE IF name = f_image_url THEN [pd EXCEPT !.image_url = v]
    ELSE [pd EXCEPT !.meta_written = @ \cup {name}]

\* One column of one row (the body of `for col_name, value in row.items()`).
ProcessCell(pd, col_name, value, field_mappings_) ==
    LET mapping == FieldMapGet(field_mappings_, col_name)
        processed_value == _convert_value(value, mapping.field_type)
    IN IF value.k = "nan" THEN pd
       ELSE IF mapping = NoMapping THEN pd
       ELSE IF mapping.is_standard_field
               /\ mapping.normalized_field_name \in (FixedColumns \cup StagedMetaKeys)
       THEN SetKey(pd, mapping.normalized_field_name, processed_value)
       ELSE [pd EXCEPT !.additional_data = Append(@,
                [field_name |-> mapping.normalized_field_name,
                 field_label |-> mapping.field_label,
                 field_value |-> PyStr(processed_value),
                 field_type |-> mapping.field_type])]

RECURSIVE ProcessCells(_, _, _, _, _)
ProcessCells(pd, headers, row, field_mappings_, c) ==
    IF c > Len(headers) THEN pd
    ELSE ProcessCells(ProcessCell(pd, headers[c], row[c], field_mappings_),
                      headers, row, field_mappings_, c + 1)

\* One row of the file, with the required-field validation.
ProcessRow(headers, row, field_mappings_, index) ==
    LET pd == ProcessCells(NewStagedRow(index), headers, row, field_mappings_, 1)
    IN IF ~Truthy(pd.sku_id)
       THEN [pd EXCEPT !.validation_status = "error",
                       !.validation_errors = Append(@, "SKU ID is required")]
       ELSE pd

SupportedFormat(file) == file.ext \in {"csv", "xlsx", "xls"}

\* The staged rows of a file (row index from 0, as pandas numbers them).
process_file_with_mappings(file, field_mappings_) ==
    [i \in DOMAIN file.rows |->
        ProcessRow(file.headers, file.rows[i], field_mappings_, i - 1)]

\* analyze_file: the suggester's field_mappings when it answered, the
\* fallback analysis when it raised.  ai = [answered, field_mappings] is the
\* suggester's outcome.
analyze_file(file, ai) ==
    IF ai.answered THEN ai.field_mappings ELSE _fallback_analysis(file.headers)

----------------------------------------------------------------------------
\* Storage: the session of app/core/dependencies.py (autoflush off) over
\* the tables of app/models/product.py.  Integer primary keys are SQLite
\* rowids: a new row takes the largest id in its table plus one.

NextId(rows) == Max({r.id : r \in rows}) + 1

\* The rows of a sequence of new records, given ids in the order of the
\* inserts, following the rows already in the table.
RECURSIVE InsertAll(_, _)
InsertAll(rows, new) ==
    IF new = <<>> THEN rows
    ELSE InsertAll(rows \cup {[id |-> NextId(rows)] @@ Head(new)}, Tail(new))

\* FieldMapping(...) for one mapping record (upload step 4).
NewFieldMapping(tenant_id, mapping) ==
    [tenant_id |-> tenant_id,
     original_field_name |-> mapping.original_field_name,
     normalized_field_name |-> mapping.normalized_field_name,
     field_label |-> mapping.field_label,
     field_type |-> mapping.field_type,
     is_standard_field |-> IF mapping.is_standard_field THEN 1 ELSE 0]

\* Product(...) for one staged row (upload step 5).
NewProduct(id, tenant_id, product_data) ==
    [id |-> id, tenant_id |-> tenant_id,
     sku_id |-> product_data.sku_id,
     category_id |-> product_data.category_id,
     price |-> product_data.price,
     manufacturer |-> product_data.manufacturer,
     supplier |-> product_data.supplier,
     image_url |-> product_data.image_url]

\* ProductAdditionalData(...) for the attribute candidates of a staged row.
NewAdditionalData(product_id, additional_data_) ==
    [i \in DOMAIN additional_data_ |->
        [product_id |-> product_id,
         field_name |-> additional_data_[i].field_name,
         field_label |-> additional_data_[i].field_label,
         field_value |-> Str(additional_data_[i].field_value),
         field_type |-> additional_data_[i].field_type]]

\* "Check if product already exists": the query sees the committed rows
\* and the rows this session has flushed.
ExistingProduct(visible_products, tenant_id, sku) ==
    \E p \in visible_products : p.sku_id = sku /\ p.tenant_id = tenant_id

\* (Variant: a row in error is skipped and the rest of the file is saved.)
SaveRow_skipping(st, tenant_id, product_data) ==
    IF ~Truthy(product_data.sku_id)
       \/ ExistingProduct(st.products, tenant_id, product_data.sku_id)
    THEN st
    ELSE LET id == NextId(st.products)
         IN [st EXCEPT
               !.products = @ \cup {NewProduct(id, tenant_id, product_data)},
               !.pending = @ \o NewAdditionalData(id, product_data.additional_data),
               !.created = Append(@, id)]

\* The body of `for product_data in products_data` for one staged row, on
\* the session's state st = [products, pending, errors, created].
SaveRow(st, tenant_id, product_data) ==
    IF ~Truthy(product_data.sku_id)
    THEN [st EXCEPT !.errors = Append(@,
             [kind |-> "sku_required", index |-> product_data.index,
              sku_id |-> product_data.sku_id])]
    ELSE IF ExistingProduct(st.products, tenant_id, product_data.sku_id)
    THEN [st EXCEPT !.errors = Append(@,
             [kind |-> "exists", index |-> product_data.index,
              sku_id |-> product_data.sku_id])]
    ELSE LET id == NextId(st.products)
         IN [st EXCEPT
               !.products = @ \cup {NewProduct(id, tenant_id, product_data)},
               !.pending = @ \o NewAdditionalData(id, product_data.additional_data),
               !.created = Append(@, id)]

\* `for product_data in products_data`, over the rows lo..hi in order.  The
\* range is halved, and the state after the first half is evaluated (by the
\* test on it) before the second half starts, so that the evaluation of a
\* file of 500 rows nests a few levels deep instead of 500.
RECURSIVE SaveRows(_, _, _, _, _)
SaveRows(st, tenant_id, products_data, lo, hi) ==
    IF lo > hi THEN st
    ELSE IF lo = hi THEN SaveRow(st, tenant_id, products_data[lo])
    ELSE LET mid == (lo + hi) \div 2
             first == SaveRows(st, tenant_id, products_data, lo, mid)
         IN IF Len(first.errors) >= 0
            THEN SaveRows(first, tenant_id, products_data, mid + 1, hi)
            ELSE first

\* db.commit() of an upload: the flushed products, the attribute rows and
\* the mapping rows become the tables.
CommitUpload(D, st, tenant_id, mappings) ==
    [D EXCEPT
       !.products = st.products,
       !.additional_data = InsertAll(@, st.pending),
       !.field_mappings = InsertAll(@,
           [i \in DOMAIN mappings |-> NewFieldMapping(tenant_id, mappings[i])])]

\* POST /upload.  The result is the tables after the call and the response.
upload_and_save_products(D, tenant_id, file, ai) ==
    IF ~SupportedFormat(file)
    THEN [db |-> D,
          resp |-> [op |-> "upload", tenant |-> tenant_id, file |-> file.name,
                    status |-> "format_error", code |-> 500]]
    ELSE
    LET mappings == analyze_file(file, ai)
        products_data == process_file_with_mappings(file, mappings)
        st0 == [products |-> D.products, pending |-> <<>>, errors |-> <<>>,
                created |-> <<>>]
        st == SaveRows(st0, tenant_id, products_data, 1, Len(products_data))
    IN IF Len(products_data) > MAX_PRODUCTS_LIMIT
       THEN [db |-> D,
             resp |-> [op |-> "upload", tenant |-> tenant_id, file |-> file.name,
                       status |-> "limit_exceeded", code |-> 400,
                       found |-> Len(products_data)]]
       ELSE IF st.errors # <<>>
       THEN [db |-> D,                                     \* db.rollback()
             resp |-> [op |-> "upload", tenant |-> tenant_id, file |-> file.name,
                       status |-> "failed", code |-> 200,
                       errors |-> st.errors, created_count |-> 0,
                       total_count |-> Len(products_data)]]
       ELSE [db |-> CommitUpload(D, st, tenant_id, mappings),
             resp |-> [op |-> "upload", tenant |-> tenant_id, file |-> file.name,
                       status |-> "saved", code |-> 200,
                       created |-> st.created,
                       created_count |-> Len(st.created),
                       total_count |-> Len(products_data),
                       field_mappings |-> mappings]]

CountStatus(products_data, status) ==
    Cardinality({i \in DOMAIN products_data :
                    products_data[i].validation_status = status})

\* (Variant: the preview stores the mappings it found.)
analyze_storing_mappings(D, tenant_id, file, ai) ==
    IF ~SupportedFormat(file)
    THEN [db |-> D,
          resp |-> [op |-> "analyze", tenant |-> tenant_id, file |-> file.name,
                    status |-> "format_error", code |-> 500]]
    ELSE
    LET mappings == analyze_file(file, ai)
        products_data == process_file_with_mappings(file, mappings)
    IN [db |-> [D EXCEPT !.field_mappings = InsertAll(@,
                   [i \in DOMAIN mappings |-> NewFieldMapping(tenant_id, mappings[i])])],
        resp |-> [op |-> "analyze", tenant |-> tenant_id, file |-> file.name,
                  status |-> "loaded", code |-> 200,
                  products |-> products_data,
                  total_count |-> Len(products_data),
                  valid_count |-> CountStatus(products_data, "valid"),
                  error_count |-> CountStatus(products_data, "error"),
                  warning_count |-> CountStatus(products_data, "warning"),
                  field_mappings |-> mappings]]

\* POST /upload/analyze.  No statement of the handler touches the session.
analyze_and_load_product_file(D, tenant_id, file, ai) ==
    IF ~SupportedFormat(file)
    THEN [db |-> D,
          resp |-> [op |-> "analyze", tenant |-> tenant_id, file |-> file.name,
                    status |-> "format_error", code |-> 500]]
    ELSE
    LET mappings == analyze_file(file, ai)
        products_data == process_file_with_mappings(file, mappings)
    IN IF Len(products_data) > MAX_PRODUCTS_LIMIT
       THEN [db |-> D,
             resp |-> [op |-> "analyze", tenant |-> tenant_id, file |-> file.name,
                       status |-> "limit_exceeded", code |-> 400,
                       found |-> Len(products_data)]]
       ELSE [db |-> D,
             resp |-> [op |-> "analyze", tenant |-> tenant_id, file |-> file.name,
                       status |-> "loaded", code |-> 200,
                       products |-> products_data,
                       total_count |-> Len(products_data),
                       valid_count |-> CountStatus(products_data, "valid"),
                       error_count |-> CountStatus(products_data, "error"),
                       warning_count |-> CountStatus(products_data, "warning"),
                       field_mappings |-> mappings]]

----------------------------------------------------------------------------
\* Attribute schema registry: the field configuration endpoints

\* Code-point order of the characters used (string comparison, ORDER BY).
AsciiOrder == <<" ", "(", ")", ",", "-", ".">> \o Digits \o UpperChars
              \o <<"_">> \o LowerChars
Ord(c) == IndexIn(c, AsciiOrder)

RECURSIVE StrLess(_, _)
StrLess(a, b) ==
    IF b = <<>> THEN FALSE
    ELSE IF a = <<>> THEN TRUE
    ELSE IF Head(a) = Head(b) THEN StrLess(Tail(a), Tail(b))
    ELSE Ord(Head(a)) < Ord(Head(b))

\* The names of a set, ascending.
RECURSIVE SortNames(_)
SortNames(S) ==
    IF S = {} THEN <<>>
    ELSE LET m == CHOOSE x \in S : \A y \in S \ {x} : StrLess(x, y)
         IN <<m>> \o SortNames(S \ {m})

\* ORDER BY display_order, field_name (rows that tie come in id order).
ConfigBefore(a, b) ==
    \/ a.display_order < b.display_order
    \/ a.display_order = b.display_order /\ StrLess(a.field_name, b.field_name)
    \/ a.display_order = b.display_order /\ a.field_name = b.field_name
       /\ a.id < b.id
RECURSIVE OrderConfigs(_)
OrderConfigs(S) ==
    IF S = {} THEN <<>>
    ELSE LET m == CHOOSE x \in S : \A y \in S \ {x} : ConfigBefore(x, y)
         IN <<m>> \o OrderConfigs(S \ {m})

\* query(...).first(): the matching row of lowest id (SQLite returns rows in
\* rowid order when no ORDER BY is given); NoRow when none matches.
NoRow == [id |-> 0]
First(rows) == IF rows = {} THEN NoRow
               ELSE CHOOSE r \in rows : \A q \in rows : r.id <= q.id

get_actual_fields_for_tenant(D, tenant_id) ==
    LET ps == {p \in D.products : p.tenant_id = tenant_id}
    IN  {f_sku_id : p \in {q \in ps : Truthy(q.sku_id)}}
        \cup {f_price : p \in {q \in ps : q.price # None}}
        \cup {f_manufacturer : p \in {q \in ps : Truthy(q.manufacturer)}}
        \cup {f_supplier : p \in {q \in ps : Truthy(q.supplier)}}
        \cup {f_image_url : p \in {q \in ps : Truthy(q.image_url)}}
        \cup {f_category_id : p \in {q \in ps : Truthy(q.category_id)}}
        \cup {a.field_name : a \in {b \in D.additional_data :
                                      b.product_id \in {p.id : p \in ps}}}

\* The default configuration synthesized for a field without one; n_before
\* is len(field_configs) and n_smaller the number of its entries whose name
\* sorts before field_name.
DefaultConfig(D, tenant_id, field_name, n_before, n_smaller) ==
    LET field_mapping == First({m \in D.field_mappings :
                                  m.tenant_id = tenant_id
                                  /\ m.normalized_field_name = field_name})
        found == field_mapping # NoRow
        is_standard_field ==
            IF found THEN field_mapping.is_standard_field = 1
            ELSE field_name \in FixedColumns
    IN [id |-> 0, tenant_id |-> tenant_id, field_name |-> field_name,
        field_label |-> IF found THEN field_mapping.field_label
                        ELSE Title(ReplaceChars(field_name, {"_"}, " ")),
        field_type |-> IF found THEN field_mapping.field_type ELSE "string",
        is_searchable |-> FALSE, is_editable |-> TRUE,
        is_primary |-> is_standard_field /\ field_name = f_sku_id,
        is_secondary |-> is_standard_field
                         /\ field_name \in {f_price, f_manufacturer, f_supplier},
        display_order |-> n_before + n_smaller]

\* The loop "Add default configurations for actual fields that don't have
\* configs yet" over the fields names[i..]; field_configs grows as it goes.
\* (The loop runs over a Python set, whose order is unspecified; the fields
\* are taken in ascending order here, which only decides display_order.)
RECURSIVE AddDefaults(_, _, _, _, _)
AddDefaults(D, tenant_id, names, i, field_configs) ==
    IF i > Len(names) THEN field_configs
    ELSE IF \E j \in DOMAIN field_configs : field_configs[j].field_name = names[i]
            /\ field_configs[j].id # 0
    THEN AddDefaults(D, tenant_id, names, i + 1, field_configs)
    ELSE AddDefaults(D, tenant_id, names, i + 1,
            Append(field_configs,
                   DefaultConfig(D, tenant_id, names[i], Len(field_configs),
                       Cardinality({j \in DOMAIN field_configs :
                           StrLess(field_configs[j].field_name, names[i])}))))

\* `if actual_fields and not field_configs: db.commit()`, tested after the
\* loop has appended the defaults to field_configs.
GetConfigCommits(actual_fields, field_configs) ==
    actual_fields # {} /\ field_configs = <<>>

\* GET /fields/configuration
get_field_configurations(D, tenant_id) ==
    LET actual_fields == get_actual_fields_for_tenant(D, tenant_id)
        stored == OrderConfigs({c \in D.field_configurations :
                                  c.tenant_id = tenant_id
                                  /\ c.field_name \in actual_fields})
        field_configs == AddDefaults(D, tenant_id, SortNames(actual_fields), 1, stored)
        added == SubSeq(field_configs, Len(stored) + 1, Len(field_configs))
        added_rows == [i \in DOMAIN added |->
                         [k \in DOMAIN added[i] \ {"id"} |-> added[i][k]]]
    IN [db |-> IF GetConfigCommits(actual_fields, field_configs)
               THEN [D EXCEPT !.field_configurations = InsertAll(@, added_rows)]
               ELSE D,                 \* the session closes without a commit
        resp |-> [op |-> "get_config", tenant |-> tenant_id, status |-> "ok",
                  code |-> 200,
                  field_configurations |-> field_configs,
                  total_count |-> Len(field_configs),
                  actual_fields_count |-> Cardinality(actual_fields)]]

\* config_data.get(key, default) on a request entry whose keys are `present`.
Get(config_data, key, default) ==
    IF key \in config_data.present THEN config_data[key] ELSE default

\* One entry of the batch of POST /fields/configuration, on the session's
\* state st = [rows, new, errors]: rows are the stored rows as this session
\* has modified them, new the added rows not yet flushed (autoflush is off,
\* so the lookup below does not see them).
SetOneConfiguration(st, tenant_id, actual_fields, config_data) ==
    IF ~("field_name" \in config_data.present /\ config_data.field_name # <<>>)
    THEN [st EXCEPT !.errors = Append(@, [kind |-> "name_required",
                                          field_name |-> <<>>])]
    ELSE IF ~("field_label" \in config_data.present /\ config_data.field_label # <<>>)
    THEN [st EXCEPT !.errors = Append(@, [kind |-> "label_required",
                                          field_name |-> config_data.field_name])]
    ELSE IF config_data.field_name \notin actual_fields
    THEN [st EXCEPT !.errors = Append(@, [kind |-> "not_actual",
                                          field_name |-> config_data.field_name])]
    ELSE LET existing_config ==
                 First({c \in st.rows : c.field_name = config_data.field_name
                                        /\ c.tenant_id = tenant_id})
         IN IF existing_config # NoRow
            THEN [st EXCEPT !.rows = (@ \ {existing_config}) \cup
                   {[existing_config EXCEPT
                       !.field_label = config_data.field_label,
                       !.field_type = Get(config_data, "field_type", @),
                       !.is_searchable = Get(config_data, "is_searchable", @),
                       !.is_editable = Get(config_data, "is_editable", @),
                       !.is_primary = Get(config_data, "is_primary", @),
                       !.is_secondary = Get(config_data, "is_secondary", @),
                       !.display_order = Get(config_data, "display_order", @)]},
                  !.updated = Append(@, existing_config.id)]
            ELSE [st EXCEPT !.new = Append(@,
                   [tenant_id |-> tenant_id,
                    field_name |-> config_data.field_name,
                    field_label |-> config_data.field_label,
                    field_type |-> Get(config_data, "field_type", "string"),
                    is_searchable |-> Get(config_data, "is_searchable", FALSE),
                    is_editable |-> Get(config_data, "is_editable", TRUE),
                    is_primary |-> Get(config_data, "is_primary", FALSE),
                    is_secondary |-> Get(config_data, "is_secondary", FALSE),
                    display_order |-> Get(config_data, "display_order", 0)])]

RECURSIVE SetEach(_, _, _, _, _)
SetEach(st, tenant_id, actual_fields, configurations, i) ==
    IF i > Len(configurations) THEN st
    ELSE SetEach(SetOneConfiguration(st, tenant_id, actual_fields,
                                     configurations[i]),
                 tenant_id, actual_fields, configurations, i + 1)

\* POST /fields/configuration without the rollback: the entries that passed
\* validation are stored although others were rejected.
set_field_configurations_partial(D, tenant_id, configurations) ==
    LET actual_fields == get_actual_fields_for_tenant(D, tenant_id)
        st == SetEach([rows |-> D.field_configurations, new |-> <<>>,
                       errors |-> <<>>, updated |-> <<>>],
                      tenant_id, actual_fields, configurations, 1)
    IN [db |-> [D EXCEPT !.field_configurations = InsertAll(st.rows, st.new)],
        resp |-> [op |-> "set_config", tenant |-> tenant_id,
                  status |-> IF st.errors # <<>> THEN "failed" ELSE "saved",
                  code |-> 200, errors |-> st.errors,
                  created_count |-> IF st.errors # <<>> THEN 0 ELSE Len(st.new),
                  updated_count |-> IF st.errors # <<>> THEN 0 ELSE Len(st.updated),
                  total_count |-> Len(configurations)]]

\* POST /fields/configuration
set_field_configurations(D, tenant_id, configurations) ==
    LET actual_fields == get_actual_fields_for_tenant(D, tenant_id)
        st == SetEach([rows |-> D.field_configurations, new |-> <<>>,
                       errors |-> <<>>, updated |-> <<>>],
                      tenant_id, actual_fields, configurations, 1)
    IN IF st.errors # <<>>
       THEN [db |-> D,                                     \* db.rollback()
             resp |-> [op |-> "set_config", tenant |-> tenant_id,
                       status |-> "failed", code |-> 200, errors |-> st.errors,
                       created_count |-> 0, updated_count |-> 0,
                       total_count |-> Len(configurations)]]
       ELSE [db |-> [D EXCEPT !.field_configurations = InsertAll(st.rows, st.new)],
             resp |-> [op |-> "set_config", tenant |-> tenant_id,
                       status |-> "saved", code |-> 200, errors |-> <<>>,
                       created_count |-> Len(st.new),
                       updated_count |-> Len(st.updated),
                       total_count |-> Len(configurations)]]

\* PUT /fields/configuration/{field_name}
update_field_configuration(D, tenant_id, field_name, configuration) ==
    LET actual_fields == get_actual_fields_for_tenant(D, tenant_id)
        field_config == First({c \in D.field_configurations :
                                 c.field_name = field_name
                                 /\ c.tenant_id = tenant_id})
        base == [op |-> "update_config", tenant |-> tenant_id,
                 field_name |-> field_name]
    IN IF field_name \notin actual_fields
       THEN [db |-> D, resp |-> base @@ [status |-> "field_not_actual", code |-> 404]]
       ELSE IF field_config = NoRow
       THEN [db |-> D, resp |-> base @@ [status |-> "config_not_found", code |-> 404]]
       ELSE [db |-> [D EXCEPT !.field_configurations =
                        (@ \ {field_config}) \cup
                        {[field_config EXCEPT
                            !.field_label = Get(configuration, "field_label", @),
                            !.field_type = Get(configuration, "field_type", @),
                            !.is_searchable = Get(configuration, "is_searchable", @),
                            !.is_editable = Get(configuration, "is_editable", @),
                            !.is_primary = Get(configuration, "is_primary", @),
                            !.is_secondary = Get(configuration, "is_secondary", @),
                            !.display_order = Get(configuration, "display_order", @)]}],
             resp |-> base @@ [status |-> "updated", code |-> 200]]

----------------------------------------------------------------------------
\* Product update and deletion

\* Body keys that are never checked for editability.
UncheckedKeys == { <<"i","d">>, <<"t","e","n","a","n","t","_","i","d">>,
                   <<"c","r","e","a","t","e","d","_","a","t">>,
                   <<"u","p","d","a","t","e","d","_","a","t">> }
k_additional_data == <<"a","d","d","i","t","i","o","n","a","l","_","d","a","t","a">>

\* The value of a key of the request body.
BodyValue(product_data, key) ==
    IF key = f_sku_id THEN product_data.sku_id
    ELSE IF key = f_category_id THEN product_data.category_id
    ELSE IF key = f_price THEN product_data.price
    ELSE IF key = f_manufacturer THEN product_data.manufacturer
    ELSE IF key = f_supplier THEN product_data.supplier
    ELSE product_data.image_url

\* (Variant: every fixed column is assigned from the body, named or not.)
AssignColumns_all(product, product_data, editable_fields) ==
    [product EXCEPT
       !.sku_id = product_data.sku_id,
       !.category_id = product_data.category_id,
       !.price = product_data.price,
       !.manufacturer = product_data.manufacturer,
       !.supplier = product_data.supplier,
       !.image_url = product_data.image_url]

\* `if key in product_data and key in editable_fields: product.key = ...`
\* for the six fixed columns.
AssignColumns(product, product_data, editable_fields) ==
    LET val(key, old) == IF key \in product_data.keys /\ key \in editable_fields
                         THEN BodyValue(product_data, key) ELSE old
    IN [product EXCEPT
          !.sku_id = val(f_sku_id, @),
          !.category_id = val(f_category_id, @),
          !.price = val(f_price, @),
          !.manufacturer = val(f_manufacturer, @),
          !.supplier = val(f_supplier, @),
          !.image_url = val(f_image_url, @)]

\* One item of product_data['additional_data'], on st = [rows, new]: rows
\* the stored attribute rows as modified by this session, new the rows added
\* and not yet flushed (the lookup does not see them: autoflush is off).
UpdateOneAdditional(st, product_id, editable_additional_fields, item) ==
    IF item.field_name \notin editable_additional_fields THEN st
    ELSE LET existing_additional ==
                 First({a \in st.rows : a.product_id = product_id
                                        /\ a.field_name = item.field_name})
         IN IF existing_additional # NoRow
            THEN [st EXCEPT !.rows = (@ \ {existing_additional}) \cup
                    {[existing_additional EXCEPT
                        !.field_value = Str(item.field_value),
                        !.field_label = Get(item, "field_label", @),
                        !.field_type = Get(item, "field_type", @)]}]
            ELSE [st EXCEPT !.new = Append(@,
                    [product_id |-> product_id,
                     field_name |-> item.field_name,
                     field_label |-> Get(item, "field_label", item.field_name),
                     field_value |-> Str(item.field_value),
                     field_type |-> Get(item, "field_type", "string")])]

RECURSIVE UpdateAdditional(_, _, _, _, _)
UpdateAdditional(st, product_id, editable_additional_fields, items, i) ==
    IF i > Len(items) THEN st
    ELSE UpdateAdditional(
             UpdateOneAdditional(st, product_id, editable_additional_fields,
                                 items[i]),
             product_id, editable_additional_fields, items, i + 1)

\* (Variant: the update skips the SKU check.)
SkuTaken_unchecked(D, tenant_id, id, sku) == FALSE

\* The SKU check of an update: another product of the tenant has the SKU.
SkuTaken(D, tenant_id, id, sku) ==
    \E p \in D.products : p.sku_id = sku /\ p.tenant_id = tenant_id /\ p.id # id

\* PUT /{id}
update_product(D, tenant_id, id, product_data) ==
    LET product == First({p \in D.products : p.id = id /\ p.tenant_id = tenant_id})
        editable_fields == {c.field_name : c \in
                              {x \in D.field_configurations :
                                 x.tenant_id = tenant_id /\ x.is_editable}}
        non_editable_fields ==
            {key \in product_data.keys :
                key \notin editable_fields /\ key \notin UncheckedKeys}
        base == [op |-> "update", tenant |-> tenant_id, id |-> id,
                 body |-> product_data.name]
        st == IF k_additional_data \in product_data.keys
              THEN UpdateAdditional([rows |-> D.additional_data, new |-> <<>>],
                                    id, editable_fields \ FixedColumns,
                                    product_data.additional_data, 1)
              ELSE [rows |-> D.additional_data, new |-> <<>>]
    IN IF product = NoRow
       THEN [db |-> D, resp |-> base @@ [status |-> "not_found", code |-> 404]]
       ELSE IF non_editable_fields # {}
       THEN [db |-> D, resp |-> base @@ [status |-> "not_editable", code |-> 400,
                                          fields |-> non_editable_fields]]
       ELSE IF f_sku_id \in product_data.keys /\ f_sku_id \in editable_fields
               /\ SkuTaken(D, tenant_id, id, product_data.sku_id)
       THEN [db |-> D, resp |-> base @@ [status |-> "sku_exists", code |-> 400]]
       ELSE [db |-> [D EXCEPT
                       !.products = (@ \ {product}) \cup
                           {AssignColumns(product, product_data, editable_fields)},
                       !.additional_data = InsertAll(st.rows, st.new)],
             resp |-> base @@ [status |-> "updated", code |-> 200]]

\* (Variant: the product row is deleted without the relationship cascade.)
delete_product_uncascaded(D, tenant_id, id) ==
    LET product == First({p \in D.products : p.id = id /\ p.tenant_id = tenant_id})
        base == [op |-> "delete", tenant |-> tenant_id, id |-> id]
    IN IF product = NoRow
       THEN [db |-> D, resp |-> base @@ [status |-> "not_found", code |-> 404]]
       ELSE [db |-> [D EXCEPT !.products = @ \ {product}],
             resp |-> base @@ [status |-> "deleted", code |-> 200]]

\* DELETE /{id}: the ORM cascade deletes the product's attribute rows.
delete_product(D, tenant_id, id) ==
    LET product == First({p \in D.products : p.id = id /\ p.tenant_id = tenant_id})
        base == [op |-> "delete", tenant |-> tenant_id, id |-> id]
    IN IF product = NoRow
       THEN [db |-> D, resp |-> base @@ [status |-> "not_found", code |-> 404]]
       ELSE [db |-> [D EXCEPT
                       !.products = @ \ {product},
                       !.additional_data = {a \in @ : a.product_id # id}],
             resp |-> base @@ [status |-> "deleted", code |-> 200]]

----------------------------------------------------------------------------
\* Query/filter builder: search_products (GET /products/search)

\* split_comma_values: the trimmed, non-empty pieces of a parameter.
split_comma_values(value) ==
    IF ~Truthy(value) \/ Strip(value.s) = <<>> THEN <<>>
    ELSE LET pieces == Split(value.s)
             RECURSIVE Keep(_)
             Keep(i) == IF i > Len(pieces) THEN <<>>
                        ELSE IF Strip(pieces[i]) # <<>>
                             THEN <<Strip(pieces[i])>> \o Keep(i + 1)
                             ELSE Keep(i + 1)
         IN Keep(1)

\* SQL LIKE: % in the pattern stands for any run of characters, _ for any
\* one character, every other character for itself.
RECURSIVE LikeMatch(_, _)
LikeMatch(pattern, text) ==
    IF pattern = <<>> THEN text = <<>>
    ELSE IF Head(pattern) = "%"
    THEN \E n \in 0..Len(text) :
            LikeMatch(Tail(pattern), SubSeq(text, n + 1, Len(text)))
    ELSE text # <<>>
         /\ (Head(pattern) = "_" \/ Head(pattern) = Head(text))
         /\ LikeMatch(Tail(pattern), Tail(text))

\* column.ilike(f"%{val}%") on a stored value: NULL never matches; the
\* comparison ignores case.  val goes into the pattern as it was sent.
ILike(stored, val) ==
    stored # None
    /\ LikeMatch(<<"%">> \o Lower(val) \o <<"%">>, Lower(PyStr(stored)))

\* or_(*[column.ilike(...) for val in values]) as the set of product ids
\* it selects.
ColumnMatches(D, column, values) ==
    {p.id : p \in {x \in D.products :
                     \E i \in DOMAIN values : ILike(BodyValue(x, column), values[i])}}

\* Comparisons on the price column: NULL compares to nothing; a text stored
\* in the column sorts after every number.
PriceEq(stored, x) == stored.k \in {"int", "float", "bool"} /\ stored.n = x
PriceGe(stored, x) == \/ stored.k \in {"int", "float", "bool"} /\ stored.n >= x
                      \/ stored.k = "str"
PriceLe(stored, x) == stored.k \in {"int", "float", "bool"} /\ stored.n <= x

\* The product ids selected through attribute rows: for each listed value a
\* query on ProductAdditionalData by field name and value, the ids found
\* collected in one list.
AttributeProductIds(D, field_name, values) ==
    {a.product_id : a \in {x \in D.additional_data :
                             x.field_name = field_name
                             /\ \E i \in DOMAIN values :
                                   ILike(x.field_value, values[i])}}

\* any([q, sku_id, manufacturer, supplier, brand, field_name, price,
\*      price_min, price_max])
AnyFilter(req) ==
    \E v \in {req.q, req.sku_id, req.manufacturer, req.supplier, req.brand,
              req.field_name, req.price, req.price_min, req.price_max} : Truthy(v)
AnyFieldFilter(req) ==
    \E v \in {req.sku_id, req.manufacturer, req.supplier, req.brand,
              req.field_name, req.price, req.price_min, req.price_max} : Truthy(v)

\* The condition of one fixed string column, as a sequence of zero or one
\* sets of product ids.
ColumnCondition(D, req_value, column, searchable_fields) ==
    IF Truthy(req_value) /\ column \in searchable_fields
       /\ split_comma_values(req_value) # <<>>
    THEN <<ColumnMatches(D, column, split_comma_values(req_value))>>
    ELSE <<>>

PriceConditions(D, req, searchable_fields) ==
    (IF req.price # None /\ f_price \in searchable_fields
     THEN <<{p.id : p \in {x \in D.products : PriceEq(x.price, req.price.n)}}>>
     ELSE <<>>)
    \o (IF req.price_min # None /\ f_price \in searchable_fields
        THEN <<{p.id : p \in {x \in D.products : PriceGe(x.price, req.price_min.n)}}>>
        ELSE <<>>)
    \o (IF req.price_max # None /\ f_price \in searchable_fields
        THEN <<{p.id : p \in {x \in D.products : PriceLe(x.price, req.price_max.n)}}>>
        ELSE <<>>)

\* Brand search and dynamic field search: the condition is appended only
\* when the list of ids found is not empty.
AttributeCondition(D, present, field_name, req_value, searchable_fields) ==
    IF present /\ field_name \in searchable_fields
       /\ split_comma_values(req_value) # <<>>
       /\ AttributeProductIds(D, field_name, split_comma_values(req_value)) # {}
    THEN <<AttributeProductIds(D, field_name, split_comma_values(req_value))>>
    ELSE <<>>

\* General search query (if no field-specific searches): one OR over the
\* searchable fixed columns and the searchable attribute rows.
GeneralCondition(D, req, searchable_fields) ==
    IF ~(Truthy(req.q) /\ ~AnyFieldFilter(req)) THEN <<>>
    ELSE
    LET q == req.q.s
        col(column) == IF column \in searchable_fields
                       THEN <<ColumnMatches(D, column, <<q>>)>> ELSE <<>>
        price == IF f_price \notin searchable_fields THEN <<>>
                 ELSE IF IsNumeral(q)
                 THEN <<{p.id : p \in {x \in D.products :
                                         PriceEq(x.price, ParseNumber(q))}}>>
                 ELSE <<ColumnMatches(D, f_price, <<q>>)>>
        category == IF f_category_id \in searchable_fields /\ IsNumeral(q)
                    THEN <<{p.id : p \in {x \in D.products :
                                  PriceEq(x.category_id, ParseNumber(q))}}>>
                    ELSE <<>>
        ids == {a.product_id : a \in {x \in D.additional_data :
                                        x.field_name \in searchable_fields
                                        /\ ILike(x.field_value, q)}}
        additional == IF searchable_fields # {} /\ ids # {} THEN <<ids>> ELSE <<>>
        general_search_conditions ==
            col(f_sku_id) \o price \o col(f_manufacturer) \o col(f_supplier)
            \o col(f_image_url) \o category \o additional
    IN IF general_search_conditions = <<>> THEN <<>>
       ELSE <<UNION SeqToSet(general_search_conditions)>>

\* search_conditions, each condition the set of product ids it selects.
SearchConditions(D, req, searchable_fields) ==
    ColumnCondition(D, req.sku_id, f_sku_id, searchable_fields)
    \o ColumnCondition(D, req.manufacturer, f_manufacturer, searchable_fields)
    \o ColumnCondition(D, req.supplier, f_supplier, searchable_fields)
    \o PriceConditions(D, req, searchable_fields)
    \o AttributeCondition(D, Truthy(req.brand), f_brand, req.brand, searchable_fields)
    \o AttributeCondition(D, Truthy(req.field_name) /\ Truthy(req.field_value),
                          req.field_name.s, req.field_value, searchable_fields)
    \o GeneralCondition(D, req, searchable_fields)

\* and_(*search_conditions) applied to a set of product ids.
ApplyAnd(ids, search_conditions) ==
    {i \in ids : \A c \in DOMAIN search_conditions : i \in search_conditions[c]}

\* The ids of a set in ascending order (the order SQLite returns rows in
\* when no ORDER BY is given).
RECURSIVE SortIds(_)
SortIds(S) == IF S = {} THEN <<>>
              ELSE LET m == CHOOSE x \in S : \A y \in S : x <= y
                   IN <<m>> \o SortIds(S \ {m})

\* query.offset(actual_skip).limit(actual_limit)
Window(seq, actual_skip, actual_limit) ==
    SubSeq(seq, actual_skip + 1,
           IF actual_skip + actual_limit < Len(seq)
           THEN actual_skip + actual_limit ELSE Len(seq))

\* The searchable field names of the tenant.
SearchableFields(D, tenant_id) ==
    {c.field_name : c \in {x \in D.field_configurations :
                             x.tenant_id = tenant_id /\ x.is_searchable}}

\* The deprecated skip/limit parameters, when given, replace page and
\* page_size; `skip // limit` raises ZeroDivisionError for limit = 0.
Paging(req) ==
    IF req.skip # None /\ req.limit # None
    THEN IF req.limit.n = 0
         THEN [failed |-> TRUE, page |-> req.page, page_size |-> req.page_size]
         ELSE [failed |-> FALSE, page |-> (req.skip.n \div req.limit.n) + 1,
               page_size |-> req.limit.n]
    ELSE IF req.skip # None
    THEN [failed |-> FALSE, page |-> (req.skip.n \div 100) + 1, page_size |-> 100]
    ELSE IF req.limit # None
    THEN [failed |-> FALSE, page |-> 1, page_size |-> req.limit.n]
    ELSE [failed |-> FALSE, page |-> req.page, page_size |-> req.page_size]

\* An exception no handler catches: the framework answers 500.
InternalError(base) ==
    base @@ [status |-> "internal_error", code |-> 500, message |-> "",
             products |-> <<>>, total_count |-> 0]

\* (Variant: has_next compares the page with the number of items.)
PageResponse_next(base, filtered, page, page_size) ==
    LET total_count == Cardinality(filtered)
        actual_skip == (page - 1) * page_size
    IN IF page_size = 0 THEN InternalError(base)
       ELSE base @@
            [status |-> "page", code |-> 200, message |-> "",
             products |-> Window(SortIds(filtered), actual_skip, page_size),
             total_count |-> total_count,
             page |-> page, page_size |-> page_size,
             skip |-> actual_skip, limit |-> page_size,
             total_pages |-> (total_count + page_size - 1) \div page_size,
             has_next |-> page < total_count,
             has_previous |-> page > 1,
             next_page |-> IF page < total_count
                           THEN Int_(page + 1) ELSE None,
             previous_page |-> IF page > 1 THEN Int_(page - 1) ELSE None]

\* total_count = query.count(), the window and the "pagination" object;
\* `// page_size` raises ZeroDivisionError for page_size = 0.
PageResponse(base, filtered, page, page_size) ==
    LET total_count == Cardinality(filtered)
        actual_skip == (page - 1) * page_size
    IN IF page_size = 0 THEN InternalError(base)
       ELSE base @@
            [status |-> "page", code |-> 200, message |-> "",
             products |-> Window(SortIds(filtered), actual_skip, page_size),
             total_count |-> total_count,
             page |-> page, page_size |-> page_size,
             skip |-> actual_skip, limit |-> page_size,
             total_pages |-> (total_count + page_size - 1) \div page_size,
             has_next |-> page * page_size < total_count,
             has_previous |-> page > 1,
             next_page |-> IF page * page_size < total_count
                           THEN Int_(page + 1) ELSE None,
             previous_page |-> IF page > 1 THEN Int_(page - 1) ELSE None]

\* GET /search.
search_products(D, tenant_id, req) ==
    LET paging == Paging(req)
        query == {p.id : p \in {x \in D.products :
                    x.tenant_id = tenant_id
                    /\ (Truthy(req.category_id)
                          => PriceEq(x.category_id, req.category_id.n))}}
        searchable_fields == SearchableFields(D, tenant_id)
        search_conditions == SearchConditions(D, req, searchable_fields)
        base == [op |-> "search", tenant |-> tenant_id, req |-> req]
        empty(message) == base @@ [status |-> "empty", code |-> 200,
                                   message |-> message, products |-> <<>>,
                                   total_count |-> 0]
        filtered == ApplyAnd(query, search_conditions)
    IN IF paging.failed THEN InternalError(base)
       ELSE IF searchable_fields = {} /\ ~AnyFilter(req)
       THEN empty("No searchable fields configured")
       ELSE IF search_conditions = <<>> /\ searchable_fields = {}
       THEN empty("No searchable fields configured")
       ELSE IF search_conditions = <<>> /\ AnyFilter(req)
       THEN empty("No products found matching the search criteria")
       ELSE PageResponse(base, filtered, paging.page, paging.page_size)

\* The values of the field_type selector.
t_primary == <<"p","r","i","m","a","r","y">>
t_secondary == <<"s","e","c","o","n","d","a","r","y">>
t_all == <<"a","l","l">>

\* filter_type of GET /products: field_type when given, else the deprecated
\* primary_only / secondary_only flags; <<>> when no selector is given.
FilterType(req) ==
    IF Truthy(req.field_type) THEN Lower(req.field_type.s)
    ELSE IF req.primary_only THEN t_primary
    ELSE IF req.secondary_only THEN t_secondary
    ELSE <<>>

\* "Apply field type filtering" of GET /products on the product ids ids: the
\* products with a value in one of the fields configured of the type.
FieldTypeFilter(D, tenant_id, req, ids) ==
    IF FilterType(req) \notin {t_primary, t_secondary} THEN ids
    ELSE
    LET field_names ==
            {c.field_name : c \in {x \in D.field_configurations :
                /\ x.tenant_id = tenant_id
                /\ x.is_primary = (FilterType(req) = t_primary)
                /\ x.is_secondary = (FilterType(req) = t_secondary)}}
        col(column) == IF column \in field_names
                       THEN <<{p.id : p \in {x \in D.products :
                                                BodyValue(x, column) # None}}>>
                       ELSE <<>>
        product_ids_with_field_data ==
            {a.product_id : a \in {x \in D.additional_data :
                                      x.field_name \in field_names
                                      /\ x.field_value # None}}
        field_conditions ==
            col(f_sku_id) \o col(f_price) \o col(f_manufacturer) \o col(f_supplier)
            \o (IF product_ids_with_field_data # {}
                THEN <<product_ids_with_field_data>> ELSE <<>>)
    IN IF field_names # {} /\ field_conditions # <<>>
       THEN ids \cap UNION SeqToSet(field_conditions)
       ELSE ids

\* GET /products.  req.q is the `search` parameter.
list_products(D, tenant_id, req) ==
    LET paging == Paging(req)
        query == {p.id : p \in {x \in D.products :
                    x.tenant_id = tenant_id
                    /\ (Truthy(req.category_id)
                          => PriceEq(x.category_id, req.category_id.n))}}
        searchable_fields == SearchableFields(D, tenant_id)
        search_conditions == SearchConditions(D, req, searchable_fields)
        base == [op |-> "list", tenant |-> tenant_id, req |-> req]
        empty(message) == base @@ [status |-> "empty", code |-> 200,
                                   message |-> message, products |-> <<>>,
                                   total_count |-> 0]
        filtered == FieldTypeFilter(D, tenant_id, req,
                                    ApplyAnd(query, search_conditions))
    IN IF paging.failed THEN InternalError(base)
       ELSE IF Truthy(req.field_type)
          /\ Lower(req.field_type.s) \notin {t_primary, t_secondary, t_all}
       THEN base @@ [status |-> "invalid_field_type", code |-> 400,
                     message |-> "", products |-> <<>>, total_count |-> 0]
       ELSE IF search_conditions = <<>> /\ Truthy(req.q) /\ searchable_fields = {}
       THEN empty("No searchable fields configured")
       ELSE IF search_conditions = <<>> /\ AnyFilter(req)
       THEN empty("No products found matching the search criteria")
       ELSE PageResponse(base, filtered, paging.page, paging.page_size)

----------------------------------------------------------------------------
\* Inputs: the tenants, the uploaded files, the request bodies

Tenants == {1, 2}

\* The most products the catalog holds (over all tenants).
MaxProducts == 3

h_sku_id == f_sku_id
h_Brand == <<"B","r","a","n","d">>
h_Color == <<"C","o","l","o","r">>
h_color == <<"c","o","l","o","r">>

\* sku_id,manufacturer,supplier,Brand with two complete rows.
FileA == [name |-> "A", ext |-> "csv",
          headers |-> <<h_sku_id, f_manufacturer, f_supplier, h_Brand>>,
          rows |-> << <<Str(<<"A","1">>), Str(<<"A","p","p","l","e">>), Str(<<"A","c","m","e">>), Str(<<"N","i","k","e">>)>>,
                      <<Str(<<"A","2">>), Str(<<"S","o","n","y">>), Str(<<"A","c","m","e">>), Str(<<"P","u","m","a">>)>> >>]
\* Two headers, Color and color, that normalize to one attribute name.
FileB == [name |-> "B", ext |-> "xlsx",
          headers |-> <<h_sku_id, f_manufacturer, f_supplier, h_Color, h_color>>,
          rows |-> << <<Str(<<"A","3">>), Str(<<"A","P","P","L","E">>), Str(<<"B","o","l","t">>), Str(<<"r","e","d">>), Str(<<"b","l","u","e">>)>> >>]
\* sku_id,price,Brand with an empty price and an empty SKU.
FileC == [name |-> "C", ext |-> "csv",
          headers |-> <<h_sku_id, f_price, h_Brand>>,
          rows |-> << <<Str(<<"A","1">>), Float(9), Str(<<"N","i","k","e">>)>>,
                      <<Str(<<"A","2">>), NaN, Str(<<"A","d","i","d","a","s">>)>>,
                      <<NaN, Float(5), Str(<<"P","u","m","a">>)>> >>]
\* The same SKU on two rows.
FileD == [name |-> "D", ext |-> "csv",
          headers |-> <<h_sku_id>>,
          rows |-> << <<Str(<<"B","1">>)>>, <<Str(<<"B","1">>)>> >>]
\* Not a spreadsheet.
FileE == [name |-> "E", ext |-> "txt", headers |-> <<>>, rows |-> <<>>]
\* A file of the other tenant that uses a SKU of FileA.
FileF == [name |-> "F", ext |-> "csv",
          headers |-> <<h_sku_id, h_Brand>>,
          rows |-> << <<Str(<<"A","1">>), Str(<<"Z","z","z">>)>> >>]
\* A file whose SKU column holds numbers only, 0 among them.
FileG == [name |-> "G", ext |-> "csv",
          headers |-> <<h_sku_id, h_Brand>>,
          rows |-> << <<Int_(0), Str(<<"N","i","k","e">>)>>,
                      <<Int_(7), Str(<<"P","u","m","a">>)>> >>]
\* A file that shares the Brand header with FileA and has a manufacturer
\* cell of spaces.
FileH == [name |-> "H", ext |-> "csv",
          headers |-> <<h_sku_id, f_manufacturer, h_Brand>>,
          rows |-> << <<Str(<<"A","4">>), Str(<<" "," ">>), Str(<<"F","i","l","a">>)>> >>]
\* n rows, every one with the SKU B1.
RowsFile(name, n) == [name |-> name, ext |-> "csv", headers |-> <<h_sku_id>>,
                      rows |-> [i \in 1..n |-> <<Str(<<"B","1">>)>>]]

FilesOf(tenant_id) == IF tenant_id = 1 THEN {FileA, FileB, FileC, FileD, FileE}
                      ELSE {FileF}
\* A header that is no synonym of a fixed column but contains the text id.
FileJ == [name |-> "J", ext |-> "csv",
          headers |-> <<h_sku_id, <<"v","a","l","i","d","a","t","i","o","n","_","s","t","a","t","u","s">> >>,
          rows |-> << <<Str(<<"A","1">>), Str(<<"o","k">>)>> >>]
PreviewFilesOf(tenant_id) ==
    FilesOf(tenant_id) \cup (IF tenant_id = 1 THEN {FileG, FileJ} ELSE {})
LimitFiles == {RowsFile("L500", 500), RowsFile("L501", 501), FileA, FileB, FileE}

\* The suggester's possible outcomes for a file: it raised (the fallback
\* serves the upload), or it answered with a mapping list of its own.
SuggesterRaised == [answered |-> FALSE, field_mappings |-> <<>>]
SuggesterOutcomes(file) ==
    {SuggesterRaised} \cup
    (IF file.name = "C"
     THEN {[answered |-> TRUE,
            field_mappings |->
              [i \in 1..3 |->
                 IF i = 3
                 THEN [original_field_name |-> h_Brand,
                       normalized_field_name |-> f_brand,
                       field_label |-> h_Brand, field_type |-> "string",
                       is_standard_field |-> FALSE]
                 ELSE FallbackMapping(FileC.headers[i])]]}
     ELSE {})

\* The suggester's outcomes in the uploads of MapFilesOf: it raised, or it
\* answered with the fallback's mappings but its own name for Brand.
f_brand_name == <<"b","r","a","n","d","_","n","a","m","e">>
MapOutcomes(file) ==
    {SuggesterRaised} \cup
    (IF \E c \in DOMAIN file.headers : file.headers[c] = h_Brand
     THEN {[answered |-> TRUE,
            field_mappings |->
              [i \in DOMAIN file.headers |->
                 IF file.headers[i] = h_Brand
                 THEN [original_field_name |-> h_Brand,
                       normalized_field_name |-> f_brand_name,
                       field_label |-> h_Brand, field_type |-> "string",
                       is_standard_field |-> FALSE]
                 ELSE FallbackMapping(file.headers[i])]]}
     ELSE {})
MapFilesOf(tenant_id) == IF tenant_id = 1 THEN {FileA, FileC, FileH} ELSE {FileF}

\* Request bodies of PUT /{id}.
NoBody == [name |-> "", keys |-> {}, sku_id |-> None, category_id |-> None,
           price |-> None, manufacturer |-> None, supplier |-> None,
           image_url |-> None, additional_data |-> <<>>]
AttrItem(field_name, field_value) ==
    [present |-> {"field_name", "field_value"}, field_name |-> field_name,
     field_value |-> field_value, field_label |-> <<>>, field_type |-> "string"]
UpdateBodies ==
    { [NoBody EXCEPT !.name = "sku", !.keys = {f_sku_id}, !.sku_id = Str(<<"A","3">>)],
      [NoBody EXCEPT !.name = "attrs", !.keys = {k_additional_data},
                     !.additional_data = <<AttrItem(h_color, <<"x">>),
                                           AttrItem(h_color, <<"y">>)>>] }

\* Entries and batches of POST /fields/configuration.
ConfigEntry(field_name, is_searchable) ==
    [present |-> {"field_name", "field_label", "is_searchable"},
     field_name |-> field_name, field_label |-> field_name,
     field_type |-> "string", is_searchable |-> is_searchable,
     is_editable |-> TRUE, is_primary |-> FALSE, is_secondary |-> FALSE,
     display_order |-> 0]
ConfigBatches ==
    { <<ConfigEntry(f_sku_id, TRUE), ConfigEntry(f_manufacturer, TRUE),
        ConfigEntry(f_supplier, TRUE), ConfigEntry(f_brand, TRUE)>>,
      <<ConfigEntry(f_supplier, FALSE), ConfigEntry(h_color, TRUE),
        ConfigEntry(h_color, TRUE)>> }

\* Bodies of PUT /fields/configuration/{field_name}.
ConfigUpdates ==
    { [field_name |-> f_supplier,
       configuration |-> [present |-> {"is_searchable"}, is_searchable |-> FALSE]] }
\* ... and one that also flags the field primary.
QueryUpdates ==
    { [field_name |-> f_supplier,
       configuration |-> [present |-> {"is_searchable", "is_primary"},
                          is_searchable |-> FALSE, is_primary |-> TRUE]] }

\* Search requests.
NoRequest == [name |-> "none", q |-> None, sku_id |-> None, price |-> None,
              price_min |-> None, price_max |-> None, manufacturer |-> None,
              supplier |-> None, brand |-> None, field_name |-> None,
              field_value |-> None, field_type |-> None, category_id |-> None,
              primary_only |-> FALSE, secondary_only |-> FALSE,
              page |-> 1, page_size |-> 100, skip |-> None, limit |-> None]
SearchRequests ==
    { NoRequest,
      [NoRequest EXCEPT !.name = "and", !.manufacturer = Str(<<"A","p","p","l","e">>),
                        !.supplier = Str(<<"A","c","m","e">>)],
      [NoRequest EXCEPT !.name = "or", !.manufacturer = Str(<<"a","p","p","l","e"," ",","," ",",","S","O","N","Y">>)],
      [NoRequest EXCEPT !.name = "blank", !.manufacturer = Str(<<",">>),
                        !.supplier = Str(<<"A","c","m","e">>)],
      [NoRequest EXCEPT !.name = "wild", !.manufacturer = Str(<<"s","_","n","y">>)],
      [NoRequest EXCEPT !.name = "sku", !.sku_id = Str(<<"a">>), !.supplier = Str(<<"b","o","l","t",",","a","c","m","e">>)],
      [NoRequest EXCEPT !.name = "brand", !.brand = Str(<<"n","i","k","e">>),
                        !.supplier = Str(<<"A","c","m","e">>)],
      [NoRequest EXCEPT !.name = "nobrand", !.brand = Str(<<"Z","z","z">>),
                        !.supplier = Str(<<"A","c","m","e">>)],
      [NoRequest EXCEPT !.name = "field", !.field_name = Str(<<"b","r","a","n","d">>),
                        !.field_value = Str(<<"z","z","z",",","p","u","m","a">>), !.manufacturer = Str(<<"S","o","n","y">>)] }

\* Requests of the list and search endpoints that produce no condition, or
\* one through attribute rows, or select by field type.
QueryRequests ==
    { NoRequest,
      [NoRequest EXCEPT !.name = "sup", !.supplier = Str(<<"A","c","m","e">>)],
      [NoRequest EXCEPT !.name = "zero", !.price = Float(0)],
      [NoRequest EXCEPT !.name = "nobrand", !.brand = Str(<<"Z","z","z">>),
                        !.supplier = Str(<<"A","c","m","e">>)],
      [NoRequest EXCEPT !.name = "q", !.q = Str(<<"a","c","m","e">>)],
      [NoRequest EXCEPT !.name = "primary", !.field_type = Str(t_primary)],
      [NoRequest EXCEPT !.name = "all", !.field_type = Str(t_all),
                        !.supplier = Str(<<"A","c","m","e">>)] }

\* The second tenant sends fewer kinds of request.
BodiesOf(tenant_id) ==
    IF tenant_id = 1 THEN UpdateBodies ELSE {b \in UpdateBodies : b.name = "sku"}
RequestsOf(tenant_id) ==
    IF tenant_id = 1 THEN SearchRequests
    ELSE {r \in SearchRequests : r.name \in {"none", "brand"}}

\* sku_id,color,additional_data: a column named like the key of the nested
\* edits of an update.
FileI == [name |-> "I", ext |-> "csv",
          headers |-> <<h_sku_id, h_color, k_additional_data>>,
          rows |-> << <<Str(<<"A","5">>), Str(<<"r","e","d">>), Str(<<"n">>)>> >>]

FileNamed(name) ==
    CHOOSE f \in PreviewFilesOf(1) \cup FilesOf(2) \cup LimitFiles \cup {FileH, FileI} :
        f.name = name

----------------------------------------------------------------------------
\* The service: one request at a time.  Each action is one handler, from
\* the tables before the call to the tables and the response after it.

Sessions == {1, 2}
IdleSession == [pc |-> "idle"]

Init ==
    /\ products = {}
    /\ additional_data = {}
    /\ field_mappings = {}
    /\ field_configurations = {}
    /\ resp = [op |-> "none"]
    /\ sessions = [s \in Sessions |-> IdleSession]
    /\ write_lock = 0

\* The tables after a handler returned result.
Stores(result) ==
    /\ products' = result.db.products
    /\ additional_data' = result.db.additional_data
    /\ field_mappings' = result.db.field_mappings
    /\ field_configurations' = result.db.field_configurations

Upload ==
    \E tenant_id \in Tenants : \E file \in FilesOf(tenant_id) :
    \E ai \in SuggesterOutcomes(file) :
        LET result == upload_and_save_products(DB, tenant_id, file, ai)
        IN /\ Cardinality(result.db.products) <= MaxProducts
           /\ Stores(result)
           /\ resp' = result.resp @@ [ai |-> ai]
           /\ UNCHANGED <<sessions, write_lock>>

Analyze ==
    \E tenant_id \in Tenants : \E file \in PreviewFilesOf(tenant_id) :
    \E ai \in SuggesterOutcomes(file) :
        LET result == analyze_and_load_product_file(DB, tenant_id, file, ai)
        IN /\ Stores(result)
           /\ resp' = result.resp @@ [ai |-> ai]
           /\ UNCHANGED <<sessions, write_lock>>

UpdateProduct ==
    \E tenant_id \in Tenants : \E id \in 1..MaxProducts :
    \E product_data \in BodiesOf(tenant_id) :
        LET result == update_product(DB, tenant_id, id, product_data)
        IN /\ Stores(result)
           /\ resp' = result.resp
           /\ UNCHANGED <<sessions, write_lock>>

GetConfigurations ==
    \E tenant_id \in Tenants :
        LET result == get_field_configurations(DB, tenant_id)
        IN /\ Stores(result)
           /\ resp' = result.resp
           /\ UNCHANGED <<sessions, write_lock>>

SetConfigurations ==
    \E tenant_id \in Tenants : \E configurations \in ConfigBatches :
        LET result == set_field_configurations(DB, tenant_id, configurations)
        IN /\ Stores(result)
           /\ resp' = result.resp @@ [configurations |-> configurations]
           /\ UNCHANGED <<sessions, write_lock>>

UpdateFieldConfiguration ==
    \E tenant_id \in Tenants : \E u \in ConfigUpdates :
        LET result == update_field_configuration(DB, tenant_id, u.field_name,
                                                 u.configuration)
        IN /\ Stores(result)
           /\ resp' = result.resp
           /\ UNCHANGED <<sessions, write_lock>>

\* The handler reads only: the session closes with nothing to write.
Search ==
    \E tenant_id \in Tenants : \E req \in RequestsOf(tenant_id) :
        /\ resp' = search_products(DB, tenant_id, req)
        /\ UNCHANGED <<db_vars, sessions, write_lock>>

Next ==
    \/ Upload
    \/ Analyze
    \/ UpdateProduct
    \/ GetConfigurations
    \/ SetConfigurations
    \/ UpdateFieldConfiguration
    \/ Search

Spec == Init /\ [][Next]_vars

----------------------------------------------------------------------------
\* Properties of the filter builder

\* The tenant's products whose column contains val, ignoring case.
HasValue(tenant_id, column, val) ==
    {p.id : p \in {x \in products :
        /\ x.tenant_id = tenant_id
        /\ BodyValue(x, column) # None
        /\ Contains(Lower(PyStr(BodyValue(x, column))), Lower(val))}}

\* The fixed string columns a request filters on.
FilteredColumns(req) ==
    {column \in {f_sku_id, f_manufacturer, f_supplier} :
        Truthy(BodyValue(req, column))}

\* The request filters on fixed string columns only, all of them searchable.
FixedColumnSearch(r) ==
    /\ r.op = "search"
    /\ FilteredColumns(r.req) # {}
    /\ FilteredColumns(r.req) \subseteq SearchableFields(DB, r.tenant)
    /\ \A v \in {r.req.q, r.req.price, r.req.price_min, r.req.price_max,
                 r.req.brand, r.req.field_name, r.req.category_id} : v = None

\* C1: a search on searchable fixed string columns returns exactly the
\* intersection, over the filtered columns, of the union, over the column's
\* comma-separated values (trimmed, empties dropped), of the tenant's
\* products whose column contains the value case-insensitively.
C1_FilterCombinationLaw ==
    FixedColumnSearch(resp) =>
        SeqToSet(resp.products) =
            {id \in {p.id : p \in products} :
                \A column \in FilteredColumns(resp.req) :
                    LET values == split_comma_values(BodyValue(resp.req, column))
                    IN \E i \in DOMAIN values :
                          id \in HasValue(resp.tenant, column, values[i])}

\* The attribute filters of a request, as <<attribute name, value list>>.
AttributeFilters(req) ==
    (IF Truthy(req.brand) THEN {<<f_brand, split_comma_values(req.brand)>>}
     ELSE {})
    \cup (IF Truthy(req.field_name) /\ Truthy(req.field_value)
          THEN {<<req.field_name.s, split_comma_values(req.field_value)>>}
          ELSE {})

\* The product has a row of the attribute whose value contains one of values.
HasAttributeValue(id, field_name, values) ==
    \E a \in additional_data :
        /\ a.product_id = id
        /\ a.field_name = field_name
        /\ \E i \in DOMAIN values :
              Contains(Lower(PyStr(a.field_value)), Lower(values[i]))

\* C2: a filter on a searchable attribute (brand, or field_name with
\* field_value) combined with a fixed-column filter that produces a
\* condition is an AND-term: every product returned has a row of that
\* attribute whose value contains one of the listed values, so the result is
\* empty when no row matches any listed value.
C2_AttributeFilterIsAndTerm ==
    (/\ resp.op = "search"
     /\ FilteredColumns(resp.req) # {}
     /\ FilteredColumns(resp.req) \subseteq SearchableFields(DB, resp.tenant))
    => \A f \in AttributeFilters(resp.req) :
          (f[1] \in SearchableFields(DB, resp.tenant) /\ f[2] # <<>>)
          => \A i \in DOMAIN resp.products :
                HasAttributeValue(resp.products[i], f[1], f[2])

----------------------------------------------------------------------------
\* Properties of the stored catalog

\* C3: after any sequence of non-overlapping uploads and product updates,
\* no two products of one tenant have the same SKU.
C3_SkuUniquePerTenant ==
    \A p \in products : \A q \in products :
        (p.tenant_id = q.tenant_id /\ p.sku_id = q.sku_id) => p = q

\* An update that renames a product to another product's SKU was refused,
\* with a renamed product in the catalog.
C3_RenameRefused ==
    /\ resp.op = "update"
    /\ resp.status = "sku_exists"
    /\ Cardinality({p \in products : p.tenant_id = resp.tenant}) >= 2

\* C5: there is at most one attribute value row per (product id, attribute
\* name), after any sequence of uploads and product updates.
C5_OneRowPerProductAttribute ==
    \A a \in additional_data : \A b \in additional_data :
        (a.product_id = b.product_id /\ a.field_name = b.field_name)
        => a.id = b.id

\* The body of the update that response r answers.
BodyOf(r) == CHOOSE b \in UpdateBodies : b.name = r.body

\* The field names of the tenant configured editable.
EditableFields(tenant_id) ==
    {c.field_name : c \in {x \in field_configurations :
                             x.tenant_id = tenant_id /\ x.is_editable}}

\* C21: an update of an existing product whose body names a field that is
\* not configured editable (id, tenant_id, created_at, updated_at aside),
\* or that renames the SKU to one another product of the tenant has, is
\* rejected and leaves the tables unchanged; an accepted update changes
\* only the product addressed, and of it only the fields the body names.
C21_UpdateChecksEditability ==
    [][(resp'.op = "update" /\ resp'.status # "not_found") =>
        LET body == BodyOf(resp')
            tenant_id == resp'.tenant
            refused ==
                \/ \E key \in body.keys :
                      key \notin EditableFields(tenant_id) /\ key \notin UncheckedKeys
                \/ /\ f_sku_id \in body.keys
                   /\ \E p \in products : /\ p.tenant_id = tenant_id
                                          /\ p.id # resp'.id
                                          /\ p.sku_id = body.sku_id
        IN IF refused
           THEN /\ resp'.status \in {"not_editable", "sku_exists"}
                /\ resp'.code = 400
                /\ UNCHANGED db_vars
           ELSE /\ resp'.status = "updated"
                /\ {p.id : p \in products'} = {p.id : p \in products}
                /\ \A p \in products : \A q \in products' :
                      p.id = q.id =>
                         /\ p.id # resp'.id => q = p
                         /\ q.tenant_id = p.tenant_id
                         /\ \A column \in FixedColumns :
                               IF column \in body.keys /\ p.id = resp'.id
                               THEN BodyValue(q, column) = BodyValue(body, column)
                               ELSE BodyValue(q, column) = BodyValue(p, column)
                /\ \A a \in additional_data' :
                      (a.product_id # resp'.id
                       \/ \A i \in DOMAIN body.additional_data :
                             body.additional_data[i].field_name # a.field_name)
                      => a \in additional_data
                /\ \A a \in additional_data :
                      \E b \in additional_data' : b.id = a.id
                /\ UNCHANGED <<field_mappings, field_configurations>>
    ]_vars

\* An update of a product of a tenant with editable fields was refused
\* for a field that is not editable.
C21_NotEditableRefused ==
    /\ resp.op = "update"
    /\ resp.status = "not_editable"
    /\ EditableFields(resp.tenant) # {}
    /\ \E p \in products : p.id = resp.id /\ p.tenant_id = resp.tenant

\* C22: an update of an existing product that carries nested attribute
\* edits whose names are all configured editable (and no other key) is
\* accepted, and afterwards the product has, for each named attribute, a
\* row holding a value the body gave for it.
C22_EditableAttributeEditsAccepted ==
    [][(/\ resp'.op = "update"
        /\ resp'.status # "not_found"
        /\ BodyOf(resp').keys = {k_additional_data}
        /\ \A i \in DOMAIN BodyOf(resp').additional_data :
              BodyOf(resp').additional_data[i].field_name
                 \in EditableFields(resp'.tenant))
       => /\ resp'.status = "updated"
          /\ \A i \in DOMAIN BodyOf(resp').additional_data :
                \E a \in additional_data' :
                   /\ a.product_id = resp'.id
                   /\ a.field_name = BodyOf(resp').additional_data[i].field_name
                   /\ \E j \in DOMAIN BodyOf(resp').additional_data :
                         /\ BodyOf(resp').additional_data[j].field_name = a.field_name
                         /\ a.field_value =
                               Str(BodyOf(resp').additional_data[j].field_value)
    ]_vars

----------------------------------------------------------------------------
\* Uploads, updates and deletions.  Row ids are rowids: a new row takes the
\* largest id in use plus one, so the id of a deleted last row is reused.

MaxRowId == 5
MaxMappings == 7
DeleteFilesOf(tenant_id) == IF tenant_id = 1 THEN {FileA, FileI} ELSE {FileF}
DeleteBatch == <<ConfigEntry(f_sku_id, TRUE), ConfigEntry(h_color, TRUE),
                 ConfigEntry(k_additional_data, TRUE)>>

UploadDelete ==
    \E tenant_id \in Tenants : \E file \in DeleteFilesOf(tenant_id) :
        LET result == upload_and_save_products(DB, tenant_id, file, SuggesterRaised)
        IN /\ \A p \in result.db.products : p.id <= MaxProducts
           /\ \A a \in result.db.additional_data : a.id <= MaxRowId
           /\ Cardinality(result.db.field_mappings) <= MaxMappings
           /\ Stores(result)
           /\ resp' = result.resp @@ [ai |-> SuggesterRaised]
           /\ UNCHANGED <<sessions, write_lock>>

SetConfigurationsDelete ==
    \E tenant_id \in Tenants :
        LET result == set_field_configurations(DB, tenant_id, DeleteBatch)
        IN /\ Stores(result)
           /\ resp' = result.resp @@ [configurations |-> DeleteBatch]
           /\ UNCHANGED <<sessions, write_lock>>

UpdateProductDelete ==
    \E tenant_id \in Tenants : \E id \in 1..MaxProducts :
    \E product_data \in UpdateBodies :
        LET result == update_product(DB, tenant_id, id, product_data)
        IN /\ \A a \in result.db.additional_data : a.id <= MaxRowId
           /\ Stores(result)
           /\ resp' = result.resp
           /\ UNCHANGED <<sessions, write_lock>>

DeleteProduct ==
    \E tenant_id \in Tenants : \E id \in 1..MaxProducts :
        LET result == delete_product(DB, tenant_id, id)
        IN /\ Stores(result)
           /\ resp' = result.resp @@
                 [cascaded |-> Cardinality({a \in additional_data :
                                              a.product_id = id})]
           /\ UNCHANGED <<sessions, write_lock>>

NextDelete ==
    \/ UploadDelete
    \/ SetConfigurationsDelete
    \/ UpdateProductDelete
    \/ DeleteProduct

SpecDelete == Init /\ [][NextDelete]_vars

\* C23: after every upload, update and deletion each attribute row refers
\* to an existing product; a deletion removes the product addressed with
\* all of its attribute rows and no row of any other product.
C23_NoOrphanAttributeRows ==
    [][/\ \A a \in additional_data' : \E p \in products' : p.id = a.product_id
       /\ (resp'.op = "delete" /\ resp'.status = "deleted") =>
             /\ additional_data' =
                   {a \in additional_data : a.product_id # resp'.id}
             /\ products' = {p \in products : p.id # resp'.id}
             /\ \E p \in products : p.id = resp'.id /\ p.tenant_id = resp'.tenant
    ]_vars

\* A product with attribute rows was deleted while rows of another product
\* remain.
C23_DeletedWithRows ==
    /\ resp.op = "delete"
    /\ resp.status = "deleted"
    /\ resp.cascaded > 0
    /\ additional_data # {}

\* An accepted update created an attribute row for a product that had none
\* of that name.
UpdateCreatedRow ==
    /\ resp.op = "update"
    /\ resp.status = "updated"
    /\ resp.body = "attrs"
    /\ Cardinality({a \in additional_data :
                      a.product_id = resp.id /\ a.field_name = h_color}) > 1

\* A staged row that a commit for the tenant has to exclude: it has no SKU
\* or its SKU is already a product of the tenant.
Offending(row, tenant_id) ==
    \/ ~Truthy(row.sku_id)
    \/ \E p \in products : p.tenant_id = tenant_id /\ p.sku_id = row.sku_id

\* The staged row is a product of the tenant in the tables D.
CommittedIn(D, row, tenant_id) ==
    \E p \in D.products :
       /\ p.tenant_id = tenant_id
       /\ p.sku_id = row.sku_id
       /\ p.price = row.price
       /\ p.category_id = row.category_id

\* C24: the rows staged by an analyze/load call can be committed by a
\* call that excludes the offending rows and commits the remaining ones.
\* The one operation of the service that inserts products is the upload;
\* so, when the staged rows hold both offending and remaining rows, the
\* commit of these rows (the upload of the analyzed file with the same
\* suggester outcome) makes every remaining row a product of the tenant.
C24_StagedRowsCanBeSaved ==
    (/\ resp.op = "analyze"
     /\ resp.status = "loaded"
     /\ \E i \in DOMAIN resp.products : Offending(resp.products[i], resp.tenant)
     /\ \E i \in DOMAIN resp.products : ~Offending(resp.products[i], resp.tenant))
    => LET saved == upload_and_save_products(DB, resp.tenant,
                                             FileNamed(resp.file), resp.ai)
       IN \A i \in DOMAIN resp.products :
             ~Offending(resp.products[i], resp.tenant)
                => CommittedIn(saved.db, resp.products[i], resp.tenant)

----------------------------------------------------------------------------
\* Properties of the ingestion pipeline

\* The rows an upload or preview staged, from the file and the suggester's
\* outcome the response names.
StagedRows(r) ==
    process_file_with_mappings(FileNamed(r.file),
                               analyze_file(FileNamed(r.file), r.ai))

\* Row i of the staged rows has no SKU, or a SKU that a product of the
\* tenant or an earlier row of the file already has.
Offends(rows, i, tenant_id) ==
    \/ ~Truthy(rows[i].sku_id)
    \/ ExistingProduct(products, tenant_id, rows[i].sku_id)
    \/ \E j \in 1..(i - 1) : rows[j].sku_id = rows[i].sku_id

\* Row i of the staged rows is a new product, with every one of its
\* attribute candidates in a row of its own.
Committed(rows, i, tenant_id) ==
    \E p \in products' \ products :
        /\ p.tenant_id = tenant_id
        /\ p.sku_id = rows[i].sku_id
        /\ \A k \in DOMAIN rows[i].additional_data :
              \E a \in additional_data' \ additional_data :
                 /\ a.product_id = p.id
                 /\ a.field_name = rows[i].additional_data[k].field_name
                 /\ a.field_value.s = rows[i].additional_data[k].field_value

\* The step is a one-call upload of a readable file within the ceiling.
UploadStep == resp'.op = "upload" /\ resp'.status \in {"failed", "saved"}

HasSku(file, i) ==
    \E c \in DOMAIN file.headers :
        /\ file.headers[c] = h_sku_id
        /\ file.rows[i][c].k # "nan"
        /\ Strip(PyStr(file.rows[i][c])) # <<>>

\* C17: the staged response has one entry per input row, in input order; a
\* row's validation status is 'error' exactly when its SKU is missing or
\* empty and 'valid' otherwise; the error rows stay in the response and
\* valid_count + error_count + warning_count = total_count.
C17_StagedRowsAndStatus ==
    (resp.op = "analyze" /\ resp.status = "loaded") =>
        LET file == FileNamed(resp.file)
        IN /\ Len(resp.products) = Len(file.rows)
           /\ resp.total_count = Len(file.rows)
           /\ \A i \in DOMAIN resp.products :
                 /\ resp.products[i].index = i - 1
                 /\ resp.products[i].validation_status =
                       IF HasSku(file, i) THEN "valid" ELSE "error"
           /\ resp.valid_count + resp.error_count + resp.warning_count
                 = resp.total_count

\* C8: the preview leaves the four tables unchanged for every input, and
\* so does an upload that fails before its commit (unreadable file, ceiling,
\* row validation).
C8_PreviewAndFailedUploadWriteNothing ==
    [][(\/ resp'.op = "analyze"
        \/ resp'.op = "upload" /\ resp'.status # "saved")
       => UNCHANGED db_vars]_vars

\* A preview that staged rows in error ran on a catalog that holds products.
C8_PreviewOnCatalog ==
    /\ resp.op = "analyze"
    /\ resp.status = "loaded"
    /\ resp.error_count > 0
    /\ products # {}
    /\ field_mappings # {}

----------------------------------------------------------------------------
\* Properties of the attribute schema registry

\* C9: getConfigurations returns exactly one entry for each actual field of
\* the tenant (a default, not searchable and editable, when the field has no
\* stored configuration) and no entry for any other name.
C9_OneEntryPerActualField ==
    resp.op = "get_config" =>
        LET entries == resp.field_configurations
            actual_fields == get_actual_fields_for_tenant(DB, resp.tenant)
        IN /\ \A name \in actual_fields :
                 Cardinality({i \in DOMAIN entries :
                                 entries[i].field_name = name}) = 1
           /\ \A i \in DOMAIN entries :
                 /\ entries[i].field_name \in actual_fields
                 /\ entries[i].id = 0 =>
                       ~entries[i].is_searchable /\ entries[i].is_editable

\* C10: after a getConfigurations call completes, a stored configuration
\* row exists for every actual field of the tenant.
C10_DefaultsPersisted ==
    resp.op = "get_config" =>
        \A name \in get_actual_fields_for_tenant(DB, resp.tenant) :
            \E c \in field_configurations :
                c.tenant_id = resp.tenant /\ c.field_name = name

\* C11: setConfigurations is all-or-nothing.  An entry whose attribute name
\* is not an actual field of the tenant is rejected; if any entry of the
\* batch is rejected, no configuration row is created or changed (the valid
\* entries processed before it included) and the error list has one entry
\* naming each rejected attribute; if none is rejected the batch is stored.
C11_SetConfigurationsAllOrNothing ==
    [][resp'.op = "set_config" =>
        LET batch == resp'.configurations
            actual_fields == get_actual_fields_for_tenant(DB, resp'.tenant)
            rejected == {i \in DOMAIN batch :
                            batch[i].field_name \notin actual_fields}
        IN IF rejected # {}
           THEN /\ resp'.status = "failed"
                /\ UNCHANGED db_vars
                /\ Len(resp'.errors) = Cardinality(rejected)
                /\ \A i \in rejected : \E e \in DOMAIN resp'.errors :
                      /\ resp'.errors[e].kind = "not_actual"
                      /\ resp'.errors[e].field_name = batch[i].field_name
                /\ resp'.created_count = 0
                /\ resp'.updated_count = 0
           ELSE /\ resp'.status = "saved"
                /\ resp'.created_count + resp'.updated_count = Len(batch)
                /\ \A i \in DOMAIN batch : \E c \in field_configurations' :
                      /\ c.tenant_id = resp'.tenant
                      /\ c.field_name = batch[i].field_name
    ]_vars

\* C12: there is at most one configuration row per (tenant, attribute name)
\* after any sequence of getConfigurations, setConfigurations and single
\* field updates, a batch naming a not yet configured attribute twice
\* included.
C12_OneRowPerTenantAttribute ==
    \A c \in field_configurations : \A d \in field_configurations :
        (c.tenant_id = d.tenant_id /\ c.field_name = d.field_name)
        => c.id = d.id

\* A batch was refused for two entries after a valid entry of it had changed
\* the searchable flag of a stored row, and the stored row kept its flag.
C11_ValidEntryDiscarded ==
    /\ resp.op = "set_config"
    /\ resp.status = "failed"
    /\ Len(resp.errors) >= 2
    /\ resp.configurations[1].field_name
          \in get_actual_fields_for_tenant(DB, resp.tenant)
    /\ \E c \in field_configurations :
          /\ c.tenant_id = resp.tenant
          /\ c.field_name = resp.configurations[1].field_name
          /\ c.is_searchable # resp.configurations[1].is_searchable

----------------------------------------------------------------------------
\* The list and search endpoints on the catalogs of two tenants: uploads of
\* one file per tenant, the configuration calls that make fields searchable
\* or primary, and the requests of QueryRequests.

QueryFilesOf(tenant_id) == IF tenant_id = 1 THEN {FileA, FileH} ELSE {FileF}

UploadQuery ==
    \E tenant_id \in Tenants : \E file \in QueryFilesOf(tenant_id) :
        LET result == upload_and_save_products(DB, tenant_id, file, SuggesterRaised)
        IN /\ Stores(result)
           /\ resp' = result.resp @@ [ai |-> SuggesterRaised]
           /\ UNCHANGED <<sessions, write_lock>>

SetConfigurationsQuery ==
    \E tenant_id \in Tenants :
    \E configurations \in {c \in ConfigBatches : Len(c) = 4} :
        LET result == set_field_configurations(DB, tenant_id, configurations)
        IN /\ Stores(result)
           /\ resp' = result.resp @@ [configurations |-> configurations]
           /\ UNCHANGED <<sessions, write_lock>>

UpdateFieldConfigurationQuery ==
    \E tenant_id \in Tenants : \E u \in QueryUpdates :
        LET result == update_field_configuration(DB, tenant_id, u.field_name,
                                                 u.configuration)
        IN /\ Stores(result)
           /\ resp' = result.resp
           /\ UNCHANGED <<sessions, write_lock>>

SearchQuery ==
    \E tenant_id \in Tenants : \E req \in QueryRequests :
        /\ resp' = search_products(DB, tenant_id, req)
        /\ UNCHANGED <<db_vars, sessions, write_lock>>

ListQuery ==
    \E tenant_id \in Tenants : \E req \in QueryRequests :
        /\ resp' = list_products(DB, tenant_id, req)
        /\ UNCHANGED <<db_vars, sessions, write_lock>>

NextQuery ==
    \/ UploadQuery
    \/ SetConfigurationsQuery
    \/ UpdateFieldConfigurationQuery
    \/ SearchQuery
    \/ ListQuery

SpecQuery == Init /\ [][NextQuery]_vars

\* The request supplies a filter parameter: the general query, a field
\* filter, field_name, or a price parameter with any numeric value.
SuppliesFilter(req) ==
    \E v \in {req.q, req.sku_id, req.manufacturer, req.supplier, req.brand,
              req.field_name, req.price, req.price_min, req.price_max} :
        v # None

\* C13: a list or search request that supplies a filter parameter (a price
\* of 0 included) and for which no condition is produced is answered with
\* zero items and total 0, with the message 'No searchable fields
\* configured' when the tenant has no searchable field and 'No products
\* found matching the search criteria' when it has some.
C13_NoConditionGivesEmpty ==
    (/\ resp.op \in {"search", "list"}
     /\ SuppliesFilter(resp.req)
     /\ SearchConditions(DB, resp.req, SearchableFields(DB, resp.tenant)) = <<>>)
    => /\ resp.products = <<>>
       /\ resp.total_count = 0
       /\ resp.message =
             IF SearchableFields(DB, resp.tenant) = {}
             THEN "No searchable fields configured"
             ELSE "No products found matching the search criteria"

\* C14: when the tenant has no searchable field and the list or search
\* request supplies no filter, the response is an empty page with a
\* diagnostic message, never the tenant's product table.
C14_UnconfiguredTenantSeesNothing ==
    (/\ resp.op \in {"search", "list"}
     /\ SearchableFields(DB, resp.tenant) = {}
     /\ ~SuppliesFilter(resp.req)
     /\ resp.req.category_id = None
     /\ resp.req.field_type = None)
    => /\ resp.products = <<>>
       /\ resp.total_count = 0
       /\ resp.message # ""

\* The tables with every value of the tenant that is not configured
\* searchable replaced by v: the fixed columns (category_id excepted; the
\* SKU, which cannot be NULL, by a text) and the attribute values.
Obscured(D, tenant_id, v) ==
    LET searchable_fields == SearchableFields(D, tenant_id)
        put(name, old) == IF name \in searchable_fields THEN old ELSE v
        own == {p.id : p \in {x \in D.products : x.tenant_id = tenant_id}}
    IN [D EXCEPT
          !.products =
             {IF p.tenant_id # tenant_id THEN p
              ELSE [p EXCEPT
                      !.sku_id = IF f_sku_id \in searchable_fields THEN @
                                 ELSE Str(<<"q">>),
                      !.price = put(f_price, @),
                      !.manufacturer = put(f_manufacturer, @),
                      !.supplier = put(f_supplier, @),
                      !.image_url = put(f_image_url, @)] : p \in @},
          !.additional_data =
             {IF a.product_id \notin own THEN a
              ELSE [a EXCEPT !.field_value = put(a.field_name, @)] : a \in @}]

\* The answer of the handler that produced response r, on tables D.
Answer(D, r) ==
    IF r.op = "list" THEN list_products(D, r.tenant, r.req)
    ELSE search_products(D, r.tenant, r.req)

\* C15: products are reachable by filter only through searchable fields:
\* a list or search request returns the same products on a catalog that
\* differs only in the tenant's values of columns and attributes not
\* configured searchable.
C15_OnlySearchableFieldsDecide ==
    resp.op \in {"search", "list"} =>
        \A v \in {None, Str(<<"q">>)} :
            Answer(Obscured(DB, resp.tenant, v), resp).products = resp.products

\* The tables without the products and attribute values of the tenants
\* other than tenant_id.
Alone(D, tenant_id) ==
    LET own == {p \in D.products : p.tenant_id = tenant_id}
    IN [D EXCEPT !.products = own,
                 !.additional_data =
                    {a \in @ : a.product_id \in {p.id : p \in own}}]

\* C16: the response of a tenant's list or search request (items, total
\* count and diagnostic) depends on that tenant's own products, attribute
\* values and configurations only: every product returned belongs to the
\* caller's tenant, and the response is the same without the other
\* tenants' products and attribute values.
C16_TenantIsolation ==
    resp.op \in {"search", "list"} =>
        /\ \A i \in DOMAIN resp.products :
              \E p \in products : p.id = resp.products[i]
                                   /\ p.tenant_id = resp.tenant
        /\ Answer(Alone(DB, resp.tenant), resp) = resp

----------------------------------------------------------------------------
\* Repeated uploads of files that share headers, each served by the
\* suggester or by the fallback, and the field list read after them.

UploadMap ==
    \E tenant_id \in Tenants : \E file \in MapFilesOf(tenant_id) :
    \E ai \in MapOutcomes(file) :
        LET result == upload_and_save_products(DB, tenant_id, file, ai)
        IN /\ Stores(result)
           /\ resp' = result.resp @@ [ai |-> ai]
           /\ UNCHANGED <<sessions, write_lock>>

AnalyzeMap ==
    \E tenant_id \in Tenants : \E file \in MapFilesOf(tenant_id) :
    \E ai \in MapOutcomes(file) :
        LET result == analyze_and_load_product_file(DB, tenant_id, file, ai)
        IN /\ Stores(result)
           /\ resp' = result.resp @@ [ai |-> ai]
           /\ UNCHANGED <<sessions, write_lock>>

NextMap ==
    \/ UploadMap
    \/ AnalyzeMap
    \/ GetConfigurations

SpecMap == Init /\ [][NextMap]_vars

\* C18: attribute identity is stable across uploads: the mappings stored
\* for one tenant give one header string one normalized attribute name,
\* whichever suggester served each upload.
C18_HeaderKeepsItsName ==
    \A m \in field_mappings : \A n \in field_mappings :
        (m.tenant_id = n.tenant_id
         /\ m.original_field_name = n.original_field_name)
        => m.normalized_field_name = n.normalized_field_name

\* C19: the mapping table holds one row for each (original header,
\* normalized attribute name) pair of a tenant seen in a committed upload:
\* committing a second upload with a header already seen adds no second
\* row for it.
C19_OneRowPerMapping ==
    \A m \in field_mappings : \A n \in field_mappings :
        (/\ m.tenant_id = n.tenant_id
         /\ m.original_field_name = n.original_field_name
         /\ m.normalized_field_name = n.normalized_field_name)
        => m.id = n.id

\* C20: after every committed upload the actual fields of the tenant
\* contain every attribute name of the attribute rows of its products and
\* the name of every fixed column that is not NULL in one of them.
C20_ActualFieldsCoverCommitted ==
    (resp.op = "upload" /\ resp.status = "saved") =>
        LET actual_fields == get_actual_fields_for_tenant(DB, resp.tenant)
        IN \A p \in products : p.tenant_id = resp.tenant =>
              /\ \A a \in additional_data :
                    a.product_id = p.id => a.field_name \in actual_fields
              /\ \A column \in FixedColumns :
                    BodyValue(p, column) # None => column \in actual_fields

\* The synonym sets of the fixed columns: the groups of the fallback's
\* standard field names.
SynonymSets ==
    << [column |-> f_sku_id,
        words |-> {<<"s","k","u","_","i","d">>, <<"s","k","u">>, <<"p","r","o","d","u","c","t","_","i","d">>, <<"i","d">>}],
       [column |-> f_price,
        words |-> {<<"p","r","i","c","e">>, <<"c","o","s","t">>, <<"a","m","o","u","n","t">>, <<"v","a","l","u","e">>}],
       [column |-> f_manufacturer,
        words |-> {<<"m","a","n","u","f","a","c","t","u","r","e","r">>, <<"b","r","a","n","d">>, <<"m","a","k","e","r">>, <<"c","o","m","p","a","n","y">>}],
       [column |-> f_supplier,
        words |-> {<<"s","u","p","p","l","i","e","r">>, <<"v","e","n","d","o","r">>, <<"d","i","s","t","r","i","b","u","t","o","r">>}],
       [column |-> f_image_url,
        words |-> {<<"i","m","a","g","e","_","u","r","l">>, <<"i","m","a","g","e">>, <<"p","h","o","t","o">>, <<"p","i","c","t","u","r","e">>}],
       [column |-> f_category_id,
        words |-> {<<"c","a","t","e","g","o","r","y","_","i","d">>, <<"c","a","t","e","g","o","r","y">>, <<"c","a","t","_","i","d">>}] >>

\* The fixed column a header is a synonym of (<<>> when of none).
SynonymColumn(header) ==
    LET header_lower == Strip(Lower(header))
        hits == {g \in DOMAIN SynonymSets : header_lower \in SynonymSets[g].words}
    IN IF hits = {} THEN <<>> ELSE SynonymSets[CHOOSE g \in hits : TRUE].column

\* C27: under the fallback a header that is a synonym of a fixed column is
\* flagged standard and its cells populate that column of the staged row;
\* a header in no synonym set is not flagged standard and its cells become
\* attribute candidates; a cell of a standard-flagged header is written to
\* nothing but one of the six fixed columns.
C27_FallbackStandardFields ==
    (resp.op = "analyze" /\ resp.status = "loaded" /\ ~resp.ai.answered) =>
        LET file == FileNamed(resp.file)
        IN \A j \in DOMAIN file.headers :
             LET column == SynonymColumn(file.headers[j])
                 mapping == resp.field_mappings[j]
             IN /\ mapping.is_standard_field <=> column # <<>>
                /\ \A i \in DOMAIN file.rows :
                      file.rows[i][j].k # "nan" =>
                         LET row == resp.products[i]
                             candidates ==
                                {c \in DOMAIN row.additional_data :
                                    row.additional_data[c].field_name
                                       = mapping.normalized_field_name}
                         IN IF mapping.is_standard_field \/ column # <<>>
                            THEN /\ column # <<>>
                                 /\ \E k \in DOMAIN file.headers :
                                       /\ SynonymColumn(file.headers[k]) = column
                                       /\ BodyValue(row, column) =
                                             _convert_value(file.rows[i][k],
                                                resp.field_mappings[k].field_type)
                                 /\ candidates = {}
                                 /\ row.meta_written = {}
                            ELSE candidates # {}

\* The tables in which the tenant's searchable fields are those flagged
\* primary (secondary) only.
Narrowed(D, tenant_id, filter_type) ==
    [D EXCEPT !.field_configurations =
        {IF c.tenant_id # tenant_id THEN c
         ELSE [c EXCEPT !.is_searchable =
                  @ /\ (IF filter_type = t_primary THEN c.is_primary
                                                   ELSE c.is_secondary)] : c \in @}]

\* Response r without a field-type selector.
Unselected(r) ==
    [r EXCEPT !.req = [@ EXCEPT !.field_type = None, !.primary_only = FALSE,
                                !.secondary_only = FALSE]]

SameAnswer(r1, r2) ==
    /\ r1.status = r2.status
    /\ r1.products = r2.products
    /\ r1.total_count = r2.total_count

\* C26: in list and search, field_type = primary (secondary) restricts the
\* configured searchable fields that build the predicate to those flagged
\* primary (secondary), before the test for an empty searchable set, and
\* adds no predicate on the product rows: the answer is the answer to the
\* request without selector for a tenant whose searchable fields are the
\* flagged ones; field_type = all changes nothing.
C26_FieldTypeNarrowsFields ==
    (resp.op \in {"search", "list"} /\ Truthy(resp.req.field_type)) =>
        IF FilterType(resp.req) \in {t_primary, t_secondary}
        THEN SameAnswer(resp, Answer(Narrowed(DB, resp.tenant,
                                              FilterType(resp.req)),
                                     Unselected(resp)))
        ELSE FilterType(resp.req) = t_all
                => SameAnswer(resp, Answer(DB, Unselected(resp)))

----------------------------------------------------------------------------
\* Paging: list and search requests with page/page_size and with the
\* deprecated skip/limit parameters on catalogs of up to three products.

MaxPage == 3
MaxSkip == 3
PageSizes == {1, 2}
Limits == {0, 1, 2, 600}
Acme == Str(<<"A","c","m","e">>)
PageRequests ==
    { [NoRequest EXCEPT !.name = "page", !.page = page, !.page_size = page_size,
                        !.supplier = supplier] :
         page \in 1..MaxPage, page_size \in PageSizes, supplier \in {None, Acme} }
    \cup
    { [NoRequest EXCEPT !.name = "window", !.skip = skip, !.limit = limit] :
         skip \in {None} \cup {Int_(n) : n \in 0..MaxSkip},
         limit \in {Int_(n) : n \in Limits} }
    \cup
    { [NoRequest EXCEPT !.name = "skip", !.skip = Int_(n)] : n \in {0, 1} }
PageRequestsOf(tenant_id) ==
    IF tenant_id = 1 THEN PageRequests
    ELSE {r \in PageRequests : r.name = "window" /\ r.skip = None}

PageFilesOf(tenant_id) == IF tenant_id = 1 THEN {FileA, FileB} ELSE {FileF}

UploadPage ==
    \E tenant_id \in Tenants : \E file \in PageFilesOf(tenant_id) :
        LET result == upload_and_save_products(DB, tenant_id, file, SuggesterRaised)
        IN /\ Stores(result)
           /\ resp' = result.resp @@ [ai |-> SuggesterRaised]
           /\ UNCHANGED <<sessions, write_lock>>

SetConfigurationsPage ==
    \E configurations \in {c \in ConfigBatches : Len(c) = 4} :
        LET result == set_field_configurations(DB, 1, configurations)
        IN /\ Stores(result)
           /\ resp' = result.resp @@ [configurations |-> configurations]
           /\ UNCHANGED <<sessions, write_lock>>

SearchPage ==
    \E tenant_id \in Tenants : \E req \in PageRequestsOf(tenant_id) :
        /\ resp' = search_products(DB, tenant_id, req)
        /\ UNCHANGED <<db_vars, sessions, write_lock>>

ListPage ==
    \E tenant_id \in Tenants : \E req \in PageRequestsOf(tenant_id) :
        /\ resp' = list_products(DB, tenant_id, req)
        /\ UNCHANGED <<db_vars, sessions, write_lock>>

NextPage ==
    \/ UploadPage
    \/ SetConfigurationsPage
    \/ SearchPage
    \/ ListPage

SpecPage == Init /\ [][NextPage]_vars

\* Every product that matches the request of response r, in the order of
\* the result: the answer to the same filters on one page of 500.
AllMatches(r) ==
    Answer(DB, [r EXCEPT !.req = [@ EXCEPT !.page = 1, !.page_size = 500,
                                           !.skip = None, !.limit = None]]).products

Smaller(a, b) == IF a < b THEN a ELSE b

\* C25: in a page of a list or search answer with page >= 1 and
\* page_size >= 1, total_items is the number of all products that match,
\* whatever the page; total_pages is ceil(total/page_size); has_next holds
\* exactly when page < total_pages and has_previous exactly when page > 1;
\* next_page and previous_page are page+1 and page-1 when their flag holds
\* and null otherwise; the number of items returned is
\* min(page_size, max(0, total - (page-1)*page_size)).
C25_PaginationArithmetic ==
    (/\ resp.op \in {"search", "list"}
     /\ resp.status = "page"
     /\ resp.page >= 1
     /\ resp.page_size >= 1)
    => LET total == Len(AllMatches(resp))
       IN /\ resp.total_count = total
          /\ resp.total_pages * resp.page_size >= total
          /\ (resp.total_pages - 1) * resp.page_size < total \/ resp.total_pages = 0
          /\ resp.total_pages = 0 => total = 0
          /\ resp.has_next <=> resp.page < resp.total_pages
          /\ resp.has_previous <=> resp.page > 1
          /\ resp.next_page = IF resp.has_next THEN Int_(resp.page + 1) ELSE None
          /\ resp.previous_page =
                IF resp.has_previous THEN Int_(resp.page - 1) ELSE None
          /\ Len(resp.products) =
                Smaller(resp.page_size,
                        Max({0, total - (resp.page - 1) * resp.page_size}))

\* The second of three matching products was returned alone on page 2 of 3.
C25_MiddlePage ==
    /\ resp.op \in {"search", "list"}
    /\ resp.status = "page"
    /\ resp.req.name = "page"
    /\ resp.page = 2
    /\ resp.page_size = 1
    /\ resp.total_count = 3
    /\ resp.has_next /\ resp.has_previous
    /\ Len(resp.products) = 1

\* C30: a list or search request with the deprecated parameters skip >= 0
\* and limit >= 1 returns the window of the filtered result that starts at
\* offset skip and holds at most limit items, with an effective page size
\* of at most 500; a request with limit = 0 is answered without an
\* internal failure.
C30_SkipLimitWindow ==
    (/\ resp.op \in {"search", "list"}
     /\ resp.req.skip # None
     /\ resp.req.limit # None)
    => /\ resp.status # "internal_error"
       /\ (resp.status = "page" /\ resp.req.limit.n >= 1) =>
             /\ resp.products =
                   Window(AllMatches(resp), resp.req.skip.n, resp.req.limit.n)
             /\ Len(resp.products) <= resp.req.limit.n
             /\ resp.page_size <= 500

----------------------------------------------------------------------------
\* Coercion: _convert_value applied to cell values of every kind a parsed
\* file holds, under every declared type, and the preview and the upload
\* of a file with a malformed price and with cells holding 0.

FieldTypes == {"string", "number", "boolean", "date"}
MaxCellNumber == 3
CellTexts ==
    { <<"0">>,
      <<"7">>,
      <<" ","7"," ">>,
      <<"4","2">>,
      <<"0","0">>,
      <<"1","2","x">>,
      <<"a","b","c">>,
      <<" ","x"," ">>,
      <<" "," ">>,
      <<"t","r","u","e">>,
      <<"Y","e","s">>,
      <<"n","o">>,
      <<"1">>,
      <<"N","/","A">>,
      <<"x"," ","y">>,
      <<"3"," ","4">> }
CellValues ==
    {Str(s) : s \in CellTexts}
    \cup {Int_(n) : n \in 0..MaxCellNumber}
    \cup {Float(n) : n \in 0..MaxCellNumber}
    \cup {Bool(TRUE), Bool(FALSE), NaN}

h_stock == <<"s","t","o","c","k">>
\* sku_id,price,stock with a malformed price and with a price and a stock
\* of 0.
FileK == [name |-> "K", ext |-> "csv",
          headers |-> <<h_sku_id, f_price, h_stock>>,
          rows |-> << <<Str(<<"A","1">>), Str(<<"1","2","x">>), Int_(5)>>,
                      <<Str(<<"A","2">>), Int_(0), Int_(0)>> >>]

Convert ==
    \E value \in CellValues : \E field_type \in FieldTypes :
        /\ resp' = [op |-> "convert", value |-> value, field_type |-> field_type,
                    result |-> _convert_value(value, field_type)]
        /\ UNCHANGED <<db_vars, sessions, write_lock>>

AnalyzeConvert ==
    \E tenant_id \in Tenants :
        LET result == analyze_and_load_product_file(DB, tenant_id, FileK,
                                                    SuggesterRaised)
        IN /\ Stores(result)
           /\ resp' = result.resp @@ [ai |-> SuggesterRaised]
           /\ UNCHANGED <<sessions, write_lock>>

UploadConvert ==
    \E tenant_id \in Tenants :
        LET result == upload_and_save_products(DB, tenant_id, FileK,
                                               SuggesterRaised)
        IN /\ Stores(result)
           /\ resp' = result.resp @@ [ai |-> SuggesterRaised]
           /\ UNCHANGED <<sessions, write_lock>>

NextConvert ==
    \/ Convert
    \/ AnalyzeConvert
    \/ UploadConvert

SpecConvert == Init /\ [][NextConvert]_vars

\* The value cannot be converted to the declared type: float() raises for
\* a text that is not a numeral.
Unconvertible(value, field_type) ==
    field_type = "number" /\ value.k = "str" /\ ~IsNumeral(value.s)

MalformedPriceSaved ==
    /\ resp.op = "upload"
    /\ resp.status = "saved"
    /\ \E p \in products : p.price = Str(<<"1","2","x">>)

\* The value of a present cell in the declared type.
InDeclaredType(value, field_type) ==
    IF field_type = "number" THEN
        IF value.k = "str"
        THEN IF IsNumeral(value.s) THEN Float(ParseNumber(value.s))
             ELSE Str(Strip(value.s))
        ELSE Float(value.n)
    ELSE IF field_type = "boolean" THEN
        IF value.k = "str" THEN Bool(Lower(value.s) \in BoolTrueTexts)
        ELSE Bool(value.n # 0)
    ELSE IF field_type = "date" THEN Str(PyStr(value))
    ELSE Str(Strip(PyStr(value)))

\* C29: coercion never turns a present cell into null: every non-null
\* cell, the number 0, the boolean false and the text 0 among them, is
\* coerced to its value in the declared type; a price of 0 is staged as 0
\* and an attribute cell of 0 is staged as the text of 0, never as None.
C29_PresentCellNeverNull ==
    /\ (resp.op = "convert" /\ resp.value.k # "nan") =>
          /\ resp.result # None
          /\ resp.result = InDeclaredType(resp.value, resp.field_type)
    /\ (resp.op = "analyze" /\ resp.status = "loaded") =>
          \A i \in DOMAIN FileK.rows :
             /\ FileK.rows[i][2].k # "nan" =>
                   resp.products[i].price = InDeclaredType(FileK.rows[i][2], "number")
             /\ FileK.rows[i][3].k # "nan" =>
                   \E a \in DOMAIN resp.products[i].additional_data :
                      /\ resp.products[i].additional_data[a].field_name = h_stock
                      /\ resp.products[i].additional_data[a].field_value
                            = PyStr(InDeclaredType(FileK.rows[i][3], "string"))

----------------------------------------------------------------------------
\* The service fed files at the ceiling: uploads and previews of files of
\* 500 and of 501 rows, among smaller ones.

UploadLimit ==
    \E tenant_id \in Tenants : \E file \in LimitFiles :
        LET result == upload_and_save_products(DB, tenant_id, file, SuggesterRaised)
        IN /\ Cardinality(result.db.products) <= MaxProducts
           /\ Stores(result)
           /\ resp' = result.resp @@ [ai |-> SuggesterRaised]
           /\ UNCHANGED <<sessions, write_lock>>

AnalyzeLimit ==
    \E tenant_id \in Tenants : \E file \in LimitFiles :
        LET result == analyze_and_load_product_file(DB, tenant_id, file,
                                                    SuggesterRaised)
        IN /\ Stores(result)
           /\ resp' = result.resp @@ [ai |-> SuggesterRaised]
           /\ UNCHANGED <<sessions, write_lock>>

NextLimit ==
    \/ UploadLimit
    \/ AnalyzeLimit

SpecLimit == Init /\ [][NextLimit]_vars

\* C7: an upload or preview whose file yields more than 500 rows fails with
\* a limit error that reports the count, and writes nothing; a file of 500
\* rows or fewer is not rejected by the ceiling, and a preview stages every
\* one of its rows.
C7_CeilingBeforeAnyWrite ==
    [][(resp'.op \in {"upload", "analyze"} /\ resp'.status # "format_error")
       => LET n == Len(FileNamed(resp'.file).rows)
          IN IF n > 500
             THEN /\ resp'.status = "limit_exceeded"
                  /\ resp'.code = 400
                  /\ resp'.found = n
                  /\ UNCHANGED db_vars
             ELSE /\ resp'.status # "limit_exceeded"
                  /\ resp'.total_count = n
    ]_vars

\* An upload of 501 rows onto a catalog that holds products was refused.
C7_Refused501 ==
    /\ resp.op = "upload"
    /\ resp.status = "limit_exceeded"
    /\ resp.found = 501
    /\ products # {}
    /\ field_mappings # {}

----------------------------------------------------------------------------
\* Uploads that overlap.  A handler runs without yielding, so two uploads
\* overlap when two server processes serve them, each with a session of its
\* own on the shared database (sqlite:///./data/pim.db).  A session reads
\* what is committed and what it has flushed itself; its first flush
\* begins a write transaction and takes the database's write lock, held
\* until its commit or rollback; a flush that finds the lock held by the
\* other session either is served after the lock is released or fails with
\* "database is locked".

\* The most products stored and in flight together.
MaxConcProducts == 4

ConcFilesOf(tenant_id) ==
    IF tenant_id = 1 THEN {FileA, FileC, FileD, FileE} ELSE {FileF}

\* The rows the sessions in flight may still add.
InFlightRows ==
    LET n(s) == IF sessions[s].pc = "idle" THEN 0
                ELSE Len(sessions[s].products_data)
    IN n(1) + n(2)

\* The position after row i of a session's file.
AfterRow(session) ==
    [session EXCEPT !.i = @ + 1,
                    !.pc = IF session.i + 1 > Len(session.products_data)
                           THEN "finish" ELSE "check"]

\* The call enters the handler: the file is parsed, mapped and staged, and
\* the mapping rows are added to the session.
ConcBegin(s) ==
    \E tenant_id \in Tenants : \E file \in ConcFilesOf(tenant_id) :
        LET mappings == analyze_file(file, SuggesterRaised)
            products_data == process_file_with_mappings(file, mappings)
            base == [op |-> "upload", tenant |-> tenant_id, file |-> file.name,
                     session |-> s]
        IN /\ sessions[s].pc = "idle"
           /\ Cardinality(products) + InFlightRows + Len(file.rows)
                 <= MaxConcProducts
           /\ IF ~SupportedFormat(file)
              THEN /\ resp' = base @@ [status |-> "format_error", code |-> 500]
                   /\ UNCHANGED sessions
              ELSE IF Len(products_data) > MAX_PRODUCTS_LIMIT
              THEN /\ resp' = base @@ [status |-> "limit_exceeded", code |-> 400,
                                       found |-> Len(products_data)]
                   /\ UNCHANGED sessions
              ELSE /\ sessions' = [sessions EXCEPT ![s] =
                        [pc |-> IF products_data = <<>> THEN "finish" ELSE "check",
                         tenant_id |-> tenant_id, file |-> file.name,
                         mappings |-> mappings, products_data |-> products_data,
                         i |-> 1, flushed |-> {}, pending |-> <<>>,
                         errors |-> <<>>, created |-> <<>>, broken |-> FALSE]]
                   /\ UNCHANGED resp
           /\ UNCHANGED <<db_vars, write_lock>>

\* The checks on row i: "SKU ID is required", "Check if product already
\* exists".  In a session whose flush has failed the query raises, and the
\* row's `except Exception` records the error.
ConcCheck(s) ==
    LET session == sessions[s]
        product_data == session.products_data[session.i]
        error(kind) == [kind |-> kind, index |-> product_data.index,
                        sku_id |-> product_data.sku_id]
    IN /\ session.pc = "check"
       /\ sessions' = [sessions EXCEPT ![s] =
            IF ~Truthy(product_data.sku_id)
            THEN AfterRow([session EXCEPT !.errors = Append(@, error("sku_required"))])
            ELSE IF session.broken
            THEN AfterRow([session EXCEPT !.errors = Append(@, error("exception"))])
            ELSE IF ExistingProduct(products \cup session.flushed,
                                    session.tenant_id, product_data.sku_id)
            THEN AfterRow([session EXCEPT !.errors = Append(@, error("exists"))])
            ELSE [session EXCEPT !.pc = "flush"]]
       /\ UNCHANGED <<db_vars, resp, write_lock>>

\* db.add(product); db.flush() for row i, and its attribute rows added.
ConcFlush(s) ==
    LET session == sessions[s]
        product_data == session.products_data[session.i]
        id == NextId(products \cup session.flushed)
    IN /\ session.pc = "flush"
       /\ write_lock \in {0, s}
       /\ write_lock' = s
       /\ sessions' = [sessions EXCEPT ![s] =
            AfterRow([session EXCEPT
               !.flushed = @ \cup {NewProduct(id, session.tenant_id, product_data)},
               !.pending = @ \o NewAdditionalData(id, product_data.additional_data),
               !.created = Append(@, id)])]
       /\ UNCHANGED <<db_vars, resp>>

\* The flush gives up on the lock ("database is locked"): the row's
\* `except Exception` records the error and the loop goes on.
ConcBusy(s) ==
    LET session == sessions[s]
        product_data == session.products_data[session.i]
    IN /\ session.pc = "flush"
       /\ write_lock \notin {0, s}
       /\ sessions' = [sessions EXCEPT ![s] =
            AfterRow([session EXCEPT
               !.broken = TRUE,
               !.errors = Append(@, [kind |-> "exception",
                                     index |-> product_data.index,
                                     sku_id |-> product_data.sku_id])])]
       /\ UNCHANGED <<db_vars, resp, write_lock>>

\* After the last row: db.rollback() when a row was in error, db.commit()
\* otherwise.
ConcFinish(s) ==
    LET session == sessions[s]
        st == [products |-> products \cup session.flushed,
               pending |-> session.pending]
        base == [op |-> "upload", tenant |-> session.tenant_id,
                 file |-> session.file, session |-> s]
    IN /\ session.pc = "finish"
       /\ IF session.errors # <<>>
          THEN /\ resp' = base @@ [status |-> "failed", code |-> 200,
                                   errors |-> session.errors, created_count |-> 0,
                                   total_count |-> Len(session.products_data)]
               /\ UNCHANGED db_vars
          ELSE /\ write_lock \in {0, s}
               /\ Stores([db |-> CommitUpload(DB, st, session.tenant_id,
                                              session.mappings)])
               /\ resp' = base @@ [status |-> "saved", code |-> 200,
                                   created |-> session.created,
                                   created_count |-> Len(session.created),
                                   total_count |-> Len(session.products_data),
                                   field_mappings |-> session.mappings]
       /\ write_lock' = IF write_lock = s THEN 0 ELSE write_lock
       /\ sessions' = [sessions EXCEPT ![s] = IdleSession]

NextConc ==
    \E s \in Sessions :
        \/ ConcBegin(s)
        \/ ConcCheck(s)
        \/ ConcFlush(s)
        \/ ConcBusy(s)
        \/ ConcFinish(s)

SpecConc == Init /\ [][NextConc]_vars

\* C4: when two uploads of one tenant that hold the same new SKU overlap,
\* at most one of them creates the product; both never succeed and leave
\* two products with the same tenant and SKU.
C4_AtMostOneUploadCreatesSku ==
    \A p \in products : \A q \in products :
        (p.id # q.id /\ p.tenant_id = q.tenant_id) => p.sku_id # q.sku_id

====
